---- MODULE Spec2Model ----
(***************************************************************************)
(* A state-machine model of the terminal text editor: the row buffer, the  *)
(* syntax highlighter with its cross-row open-comment cascade, the cursor  *)
(* and scroll model, the key dispatcher, the prompt and incremental        *)
(* search, and the load / serialize file representation.                   *)
(*                                                                         *)
(* Bytes are integers (character codes).  A C string is the sequence of    *)
(* its bytes without the terminating NUL; row position j of the source is  *)
(* element j + 1 of the sequence E.row.                                     *)
(***************************************************************************)
EXTENDS Integers, Sequences, FiniteSets, TLC

\* ------------------------------------------------------------------------
\* Constants of the program
\* ------------------------------------------------------------------------

TAB_STOP == 8
HIGHLIGHT_NUMBERS == 1
HIGHLIGHT_STRINGS == 2

BACKSPACE == 127
ARROW_LEFT == 1000
ARROW_RIGHT == 1001
ARROW_UP == 1002
ARROW_DOWN == 1003
DEL == 1004
HOME == 1005
END == 1006
PAGE_UP == 1007
PAGE_DOWN == 1008

HL_NORMAL == 0
HL_COMMENT == 1
HL_MLCOMMENT == 2
HL_KEYWORD1 == 3
HL_KEYWORD2 == 4
HL_STRING == 5
HL_NUMBER == 6
HL_MATCH == 7

\* Character codes of the bytes the source names as literals.
Ch ==
    ("\t" :> 9) @@ ("\n" :> 10) @@ ("\r" :> 13) @@ ("ESC" :> 27) @@
    (" " :> 32) @@ ("\"" :> 34) @@ ("'" :> 39) @@ ("*" :> 42) @@
    ("." :> 46) @@ ("/" :> 47) @@ ("0" :> 48) @@ ("1" :> 49) @@
    ("2" :> 50) @@ ("3" :> 51) @@ ("4" :> 52) @@ ("5" :> 53) @@
    ("6" :> 54) @@ ("7" :> 55) @@ ("8" :> 56) @@
    ("9" :> 57) @@ ("?" :> 63) @@ ("@" :> 64) @@ ("A" :> 65) @@ ("B" :> 66) @@ ("C" :> 67) @@
    ("D" :> 68) @@ ("E" :> 69) @@ ("F" :> 70) @@ ("H" :> 72) @@
    ("K" :> 75) @@ ("O" :> 79) @@ ("[" :> 91) @@
    ("\\" :> 92) @@ ("a" :> 97) @@ ("b" :> 98) @@
    ("c" :> 99) @@ ("d" :> 100) @@ ("e" :> 101) @@ ("f" :> 102) @@
    ("h" :> 104) @@ ("i" :> 105) @@ ("l" :> 108) @@ ("m" :> 109) @@
    ("n" :> 110) @@ ("o" :> 111) @@ ("p" :> 112) @@ ("q" :> 113) @@
    ("r" :> 114) @@ ("s" :> 115) @@ ("t" :> 116) @@ ("x" :> 120) @@
    ("|" :> 124) @@ ("~" :> 126)

\* CTRL_KEY(k) ((k) & 0x1f), for the lower-case letters the source uses.
CTRL_KEY(k) == Ch[k] - 96

\* The null pointer of a char * or highlight array: a value no string equals.
NULL == <<-1>>

C_HL_extensions == << <<Ch["."], Ch["c"]>>, <<Ch["."], Ch["h"]>>,
                      <<Ch["."], Ch["c"], Ch["p"], Ch["p"]>> >>

C_HL_keywords ==
    << <<115, 119, 105, 116, 99, 104>>,               \* "switch"
       <<105, 102>>,                                  \* "if"
       <<119, 104, 105, 108, 101>>,                   \* "while"
       <<102, 111, 114>>,                             \* "for"
       <<98, 114, 101, 97, 107>>,                     \* "break"
       <<99, 111, 110, 116, 105, 110, 117, 101>>,     \* "continue"
       <<114, 101, 116, 117, 114, 110>>,              \* "return"
       <<101, 108, 115, 101>>,                        \* "else"
       <<115, 116, 114, 117, 99, 116>>,               \* "struct"
       <<117, 110, 105, 111, 110>>,                   \* "union"
       <<116, 121, 112, 101, 100, 101, 102>>,         \* "typedef"
       <<115, 116, 97, 116, 105, 99>>,                \* "static"
       <<101, 110, 117, 109>>,                        \* "enum"
       <<99, 108, 97, 115, 115>>,                     \* "class"
       <<99, 97, 115, 101>>,                          \* "case"
       <<105, 110, 116, 124>>,                        \* "int|"
       <<108, 111, 110, 103, 124>>,                   \* "long|"
       <<100, 111, 117, 98, 108, 101, 124>>,          \* "double|"
       <<102, 108, 111, 97, 116, 124>>,               \* "float|"
       <<99, 104, 97, 114, 124>>,                     \* "char|"
       <<117, 110, 115, 105, 103, 110, 101, 100, 124>>, \* "unsigned|"
       <<115, 105, 103, 110, 101, 100, 124>>,         \* "signed|"
       <<118, 111, 105, 100, 124>> >>                 \* "void|"

\* The highlight database.  E.syntax is 0 (the null pointer) or the
\* position in HLDB of the selected entry.
HLDB ==
    << [filetype |-> "c",
        filematch |-> C_HL_extensions,
        keywords |-> C_HL_keywords,
        singleline_comment_start |-> <<Ch["/"], Ch["/"]>>,
        multiline_comment_start |-> <<Ch["/"], Ch["*"]>>,
        multiline_comment_end |-> <<Ch["*"], Ch["/"]>>,
        flags |-> {HIGHLIGHT_NUMBERS, HIGHLIGHT_STRINGS}] >>

HLDB_ENTRIES == Len(HLDB)

\* ------------------------------------------------------------------------
\* C library helpers, as the source uses them
\* ------------------------------------------------------------------------

\* isspace in the C locale.
isspace(c) == c \in {9, 10, 11, 12, 13, 32}

\* isdigit were '.' a digit too.
isdigit_WithDot(c) == (c >= 48 /\ c <= 57) \/ c = 46

\* isdigit.
isdigit(c) == c >= 48 /\ c <= 57

\* iscntrl in the C locale.
iscntrl(c) == (c >= 0 /\ c < 32) \/ c = 127

\* strncmp(&s[i], t, strlen(t)) == 0 for a NUL-terminated s (i is 0-based).
strncmpEq(s, i, t) ==
    /\ i + Len(t) <= Len(s)
    /\ \A k \in 1..Len(t) : s[i + k] = t[k]

\* memset(&a[i], v, n) on a sequence (i is 0-based).
memset(a, i, v, n) ==
    [k \in 1..Len(a) |-> IF k > i /\ k <= i + n THEN v ELSE a[k]]

\* strstr(s, q): the 0-based offset of the first occurrence of q in s, or -1.
strstr(s, q) ==
    LET hits == {i \in 0..(Len(s) - Len(q)) : strncmpEq(s, i, q)}
    IN  IF hits = {} THEN -1 ELSE CHOOSE i \in hits : \A j \in hits : i <= j

\* strrchr(s, c) as the suffix starting at the last c, or NULL.
strrchr(s, c) ==
    LET hits == {i \in 1..Len(s) : s[i] = c}
    IN  IF hits = {} THEN NULL
        ELSE SubSeq(s, CHOOSE i \in hits : \A j \in hits : j <= i, Len(s))

\* ------------------------------------------------------------------------
\* Syntax highlighting
\* ------------------------------------------------------------------------

\* is_separator: ",.()+-/*=~%<>[];" plus white space and NUL.
is_separator(c) ==
    \/ isspace(c)
    \/ c = 0
    \/ c \in {44, 46, 40, 41, 43, 45, 47, 42, 61, 126, 37, 60, 62, 91, 93, 59}

\* The byte at 0-based offset i of a NUL-terminated string.
ByteAt(s, i) == IF i < Len(s) THEN s[i + 1] ELSE 0

\* The keyword loop of editorUpdateSyntax: the first j whose keyword
\* matches at offset i and is followed by a separator, or 0 when none does.
KeywordAt(syn, render, i) ==
    LET klen(j) ==
            IF syn.keywords[j][Len(syn.keywords[j])] = Ch["|"]
            THEN Len(syn.keywords[j]) - 1 ELSE Len(syn.keywords[j])
        hits == {j \in 1..Len(syn.keywords) :
                    /\ strncmpEq(render, i, SubSeq(syn.keywords[j], 1, klen(j)))
                    /\ is_separator(ByteAt(render, i + klen(j)))}
    IN  IF hits = {} THEN 0 ELSE CHOOSE j \in hits : \A k \in hits : j <= k

\* SyntaxLocals were in_comment to start as 0 on every row.
SyntaxLocals_NoSeed(render, in_comment) ==
    [highlight |-> [j \in 1..Len(render) |-> HL_NORMAL],
     i |-> 0, prev_sep |-> TRUE, in_string |-> 0, in_comment |-> FALSE]

\* The locals of the for loop of editorUpdateSyntax when it starts, with
\* the highlight array set to HL_NORMAL.
SyntaxLocals(render, in_comment) ==
    [highlight |-> [j \in 1..Len(render) |-> HL_NORMAL],
     i |-> 0, prev_sep |-> TRUE, in_string |-> 0, in_comment |-> in_comment]

\* One iteration of the for loop of editorUpdateSyntax, the ++i included,
\* on the locals s; kw is the result of the keyword loop at s.i.  The
\* break of the single-line comment case leaves i at the end of the row.
SyntaxStep(syn, render, s, kw) ==
    LET i == s.i
        c == render[i + 1]
        prev_highlight == IF i > 0 THEN s.highlight[i] ELSE HL_NORMAL
        scs == syn.singleline_comment_start
        mcs == syn.multiline_comment_start
        mce == syn.multiline_comment_end
        kw2 == syn.keywords[kw][Len(syn.keywords[kw])] = Ch["|"]
        klen == IF kw2 THEN Len(syn.keywords[kw]) - 1 ELSE Len(syn.keywords[kw])
    IN
    IF Len(scs) > 0 /\ s.in_string = 0 /\ ~s.in_comment /\ strncmpEq(render, i, scs)
    THEN [s EXCEPT !.highlight = memset(@, i, HL_COMMENT, Len(render) - i),
                   !.i = Len(render)]
    ELSE IF Len(mcs) > 0 /\ Len(mce) > 0 /\ s.in_string = 0 /\ s.in_comment
    THEN IF strncmpEq(render, i, mce)
         THEN [s EXCEPT !.highlight = memset(@, i, HL_MLCOMMENT, Len(mce)),
                        !.i = i + Len(mce),
                        !.in_comment = FALSE,
                        !.prev_sep = TRUE]
         ELSE [s EXCEPT !.highlight = memset(@, i, HL_MLCOMMENT, 1),
                        !.i = i + 1]
    ELSE IF Len(mcs) > 0 /\ Len(mce) > 0 /\ s.in_string = 0
            /\ strncmpEq(render, i, mcs)
    THEN [s EXCEPT !.highlight = memset(@, i, HL_MLCOMMENT, Len(mcs)),
                   !.i = i + Len(mcs),
                   !.in_comment = TRUE]
    ELSE IF HIGHLIGHT_STRINGS \in syn.flags /\ s.in_string # 0
    THEN IF c = Ch["\\"] /\ i + 1 < Len(render)
         THEN [s EXCEPT !.highlight = memset(@, i, HL_STRING, 2),
                        !.i = i + 2]
         ELSE [s EXCEPT !.highlight = memset(@, i, HL_STRING, 1),
                        !.i = i + 1,
                        !.in_string = IF c = @ THEN 0 ELSE @,
                        !.prev_sep = TRUE]
    ELSE IF HIGHLIGHT_STRINGS \in syn.flags /\ (c = Ch["\""] \/ c = Ch["'"])
    THEN [s EXCEPT !.highlight = memset(@, i, HL_STRING, 1),
                   !.i = i + 1,
                   !.in_string = c]
    ELSE IF /\ HIGHLIGHT_NUMBERS \in syn.flags
            /\ \/ isdigit(c) /\ (s.prev_sep \/ prev_highlight = HL_NUMBER)
               \/ c = Ch["."] /\ prev_highlight = HL_NUMBER
    THEN [s EXCEPT !.highlight = memset(@, i, HL_NUMBER, 1),
                   !.i = i + 1,
                   !.prev_sep = FALSE]
    ELSE IF s.prev_sep /\ kw # 0
    THEN \* i += klen - 1; break; then --i; continue; and the loop's ++i
         [s EXCEPT !.highlight = memset(@, i, IF kw2 THEN HL_KEYWORD2
                                                     ELSE HL_KEYWORD1, klen),
                   !.i = i + klen - 1,
                   !.prev_sep = FALSE]
    ELSE [s EXCEPT !.i = i + 1, !.prev_sep = is_separator(c)]

RECURSIVE SyntaxLoop(_, _, _)
\* The for loop of editorUpdateSyntax, run from the locals s to its end.
SyntaxLoop(syn, render, s) ==
    IF s.i >= Len(render) THEN s
    ELSE SyntaxLoop(syn, render,
                    SyntaxStep(syn, render, s, KeywordAt(syn, render, s.i)))

RECURSIVE editorUpdateSyntax(_, _)
\* SyntaxCascade were it to go on to the next row whether or not the flag
\* changed.
SyntaxCascade_Always(e, k, in_comment) ==
    IF e.row[k + 1].idx + 1 < e.numrows
    THEN editorUpdateSyntax([e EXCEPT !.row[k + 1].hl_open_comment = in_comment],
                            e.row[k + 1].idx + 1)
    ELSE [e EXCEPT !.row[k + 1].hl_open_comment = in_comment]

\* The end of editorUpdateSyntax(&E.row[k]), e holding the new highlight
\* already: hl_open_comment is set to in_comment and, when that changed it
\* and row->idx + 1 < E.numrows, the next row is updated too.
SyntaxCascade(e, k, in_comment) ==
    IF e.row[k + 1].hl_open_comment # in_comment
       /\ e.row[k + 1].idx + 1 < e.numrows
    THEN editorUpdateSyntax([e EXCEPT !.row[k + 1].hl_open_comment = in_comment],
                            e.row[k + 1].idx + 1)
    ELSE [e EXCEPT !.row[k + 1].hl_open_comment = in_comment]

\* The highlight array and in_comment of the finished loop s are stored.
SyntaxStore(e, k, s) ==
    SyntaxCascade([e EXCEPT !.row[k + 1].highlight = s.highlight], k, s.in_comment)

\* editorUpdateSyntax(&E.row[k]) on the editor state e.
editorUpdateSyntax(e, k) ==
    IF e.syntax = 0
    THEN [e EXCEPT !.row[k + 1].highlight =
                       [j \in 1..Len(e.row[k + 1].render) |-> HL_NORMAL]]
    ELSE SyntaxStore(e, k,
             SyntaxLoop(HLDB[e.syntax], e.row[k + 1].render,
                        SyntaxLocals(e.row[k + 1].render,
                                     e.row[k + 1].idx > 0
                                     /\ e.row[e.row[k + 1].idx].hl_open_comment)))

\* ------------------------------------------------------------------------
\* Row operations
\* ------------------------------------------------------------------------

RECURSIVE CxToRxLoop(_, _, _, _)
\* The loop of editorRowCxToRx from j on, rx being the column reached.
CxToRxLoop(chars, cx, j, rx) ==
    IF j >= cx THEN rx
    ELSE IF chars[j + 1] = Ch["\t"]
         THEN CxToRxLoop(chars, cx, j + 1,
                         rx + ((TAB_STOP - 1) - (rx % TAB_STOP)) + 1)
         ELSE CxToRxLoop(chars, cx, j + 1, rx + 1)

\* editorRowCxToRx: the render index of char index cx.
editorRowCxToRx(row, cx) == CxToRxLoop(row.chars, cx, 0, 0)

RECURSIVE RxToCxLoop_AtOrPast(_, _, _, _)
\* RxToCxLoop were its test rx_current >= rx.
RxToCxLoop_AtOrPast(chars, rx, cx, rx_current) ==
    IF cx >= Len(chars) THEN cx
    ELSE LET nxt == IF chars[cx + 1] = Ch["\t"]
                    THEN rx_current + ((TAB_STOP - 1) - (rx_current % TAB_STOP)) + 1
                    ELSE rx_current + 1
         IN  IF nxt >= rx THEN cx
             ELSE RxToCxLoop_AtOrPast(chars, rx, cx + 1, nxt)

RECURSIVE RxToCxLoop(_, _, _, _)
\* The loop of editorRowRxToCx from cx on.
RxToCxLoop(chars, rx, cx, rx_current) ==
    IF cx >= Len(chars) THEN cx
    ELSE LET nxt == IF chars[cx + 1] = Ch["\t"]
                    THEN rx_current + ((TAB_STOP - 1) - (rx_current % TAB_STOP)) + 1
                    ELSE rx_current + 1
         IN  IF nxt > rx THEN cx ELSE RxToCxLoop(chars, rx, cx + 1, nxt)

\* editorRowRxToCx: the char index whose render span holds render index rx.
editorRowRxToCx(row, rx) == RxToCxLoop(row.chars, rx, 0, 0)

RECURSIVE RenderLoop(_, _, _)
\* The copy loop of editorUpdateRow from char j on, out being render[0..i).
RenderLoop(chars, j, out) ==
    IF j >= Len(chars) THEN out
    ELSE IF chars[j + 1] = Ch["\t"]
         THEN LET i == Len(out) + 1
                  pad == IF i % TAB_STOP = 0 THEN 0 ELSE TAB_STOP - (i % TAB_STOP)
              IN  RenderLoop(chars, j + 1,
                             out \o [k \in 1..(1 + pad) |-> Ch[" "]])
         ELSE RenderLoop(chars, j + 1, Append(out, chars[j + 1]))

\* editorUpdateRow(&E.row[k]): render is rebuilt from chars, then the
\* row's syntax is updated.
editorUpdateRow(e, k) ==
    editorUpdateSyntax(
        [e EXCEPT !.row[k + 1].render = RenderLoop(e.row[k + 1].chars, 0, <<>>)],
        k)

\* editorInsertRow(i, s, len).  The row is highlighted before E.numrows
\* is incremented.
editorInsertRow(e, i, s) ==
    IF i < 0 \/ i > e.numrows THEN e
    ELSE
    LET new == [idx |-> i, chars |-> s, render |-> <<>>, highlight |-> <<>>,
                hl_open_comment |-> FALSE]
        moved == [j \in 1..(e.numrows - i) |->
                     [e.row[i + j] EXCEPT !.idx = @ + 1]]
        e1 == [e EXCEPT !.row = SubSeq(e.row, 1, i) \o <<new>> \o moved]
        e2 == editorUpdateRow(e1, i)
    IN  [e2 EXCEPT !.numrows = @ + 1, !.dirty = TRUE]

\* editorDeleteRow without the loop that decrements idx.
editorDeleteRow_NoRenumber(e, i) ==
    IF i < 0 \/ i >= e.numrows THEN e
    ELSE [e EXCEPT !.row = SubSeq(e.row, 1, i) \o
                            SubSeq(e.row, i + 2, e.numrows),
                   !.numrows = @ - 1,
                   !.dirty = TRUE]

\* editorDeleteRow were an index past the last row taken for the last row.
editorDeleteRow_LastRow(e, i) ==
    IF i < 0 \/ e.numrows = 0 THEN e
    ELSE [e EXCEPT !.row = SubSeq(e.row, 1, e.numrows - 1),
                   !.numrows = @ - 1,
                   !.dirty = TRUE]

\* editorDeleteRow(i).
editorDeleteRow(e, i) ==
    IF i < 0 \/ i >= e.numrows THEN e
    ELSE
    LET moved == [j \in 1..(e.numrows - i - 1) |->
                     [e.row[i + 1 + j] EXCEPT !.idx = @ - 1]]
    IN  [e EXCEPT !.row = SubSeq(e.row, 1, i) \o moved,
                  !.numrows = @ - 1,
                  !.dirty = TRUE]

\* editorRowInsertChar(&E.row[k], i, c).
editorRowInsertChar(e, k, i, c) ==
    LET chars == e.row[k + 1].chars
        at == IF i < 0 \/ i > Len(chars) THEN Len(chars) ELSE i
        e1 == [e EXCEPT !.row[k + 1].chars =
                   SubSeq(chars, 1, at) \o <<c>> \o SubSeq(chars, at + 1, Len(chars))]
    IN  [editorUpdateRow(e1, k) EXCEPT !.dirty = TRUE]

\* editorRowAppendString without its call of editorUpdateRow.
editorRowAppendString_NoUpdate(e, k, s) ==
    [e EXCEPT !.row[k + 1].chars = @ \o s, !.dirty = TRUE]

\* editorRowAppendString(&E.row[k], s, len).
editorRowAppendString(e, k, s) ==
    LET e1 == [e EXCEPT !.row[k + 1].chars = @ \o s]
    IN  [editorUpdateRow(e1, k) EXCEPT !.dirty = TRUE]

\* editorRowDeleteChar were E.dirty left alone.
editorRowDeleteChar_NoDirty(e, k, i) ==
    LET chars == e.row[k + 1].chars
    IN  IF i < 0 \/ i >= Len(chars) THEN e
        ELSE editorUpdateRow([e EXCEPT !.row[k + 1].chars =
                 SubSeq(chars, 1, i) \o SubSeq(chars, i + 2, Len(chars))], k)

\* editorRowDeleteChar(&E.row[k], i).
editorRowDeleteChar(e, k, i) ==
    LET chars == e.row[k + 1].chars
    IN  IF i < 0 \/ i >= Len(chars) THEN e
        ELSE LET e1 == [e EXCEPT !.row[k + 1].chars =
                            SubSeq(chars, 1, i) \o SubSeq(chars, i + 2, Len(chars))]
             IN  [editorUpdateRow(e1, k) EXCEPT !.dirty = TRUE]

\* ------------------------------------------------------------------------
\* Editor operations
\* ------------------------------------------------------------------------

\* editorRowInsertChar(&E.row[E.cy], E.cx, c); ++E.cx;
InsertCharAtCursor(e, c) ==
    [editorRowInsertChar(e, e.cy, e.cx, c) EXCEPT !.cx = @ + 1]

\* editorInsertChar(c).
editorInsertChar(e, c) ==
    InsertCharAtCursor(IF e.cy = e.numrows
                       THEN editorInsertRow(e, e.numrows, <<>>) ELSE e, c)

\* editorInsertNewline were the row left whole when it is split.
editorInsertNewline_KeepsTail(e) ==
    LET e1 == IF e.cx = 0
              THEN editorInsertRow(e, e.cy, <<>>)
              ELSE LET chars == e.row[e.cy + 1].chars
                   IN  editorInsertRow(e, e.cy + 1, SubSeq(chars, e.cx + 1, Len(chars)))
    IN  [e1 EXCEPT !.cy = @ + 1, !.cx = 0]

\* editorInsertNewline().
editorInsertNewline(e) ==
    LET e1 == IF e.cx = 0
              THEN editorInsertRow(e, e.cy, <<>>)
              ELSE LET chars == e.row[e.cy + 1].chars
                       a == editorInsertRow(e, e.cy + 1,
                                            SubSeq(chars, e.cx + 1, Len(chars)))
                       b == [a EXCEPT !.row[e.cy + 1].chars = SubSeq(chars, 1, e.cx)]
                   IN  editorUpdateRow(b, e.cy)
    IN  [e1 EXCEPT !.cy = @ + 1, !.cx = 0]

\* editorDeleteChar were the byte under the cursor the one deleted.
editorDeleteChar_UnderCursor(e) ==
    IF e.cy = e.numrows \/ (e.cx = 0 /\ e.cy = 0) THEN e
    ELSE IF e.cx > 0
    THEN [editorRowDeleteChar(e, e.cy, e.cx) EXCEPT !.cx = @ - 1]
    ELSE LET a == [e EXCEPT !.cx = Len(e.row[e.cy].chars)]
             b == editorRowAppendString(a, e.cy - 1, e.row[e.cy + 1].chars)
             c == editorDeleteRow(b, e.cy)
         IN  [c EXCEPT !.cy = @ - 1]

\* editorDeleteChar were E.cx taken from the previous row after the append.
editorDeleteChar_CursorAfterJoin(e) ==
    IF e.cy = e.numrows \/ (e.cx = 0 /\ e.cy = 0) THEN e
    ELSE IF e.cx > 0
    THEN [editorRowDeleteChar(e, e.cy, e.cx - 1) EXCEPT !.cx = @ - 1]
    ELSE LET b == editorRowAppendString(e, e.cy - 1, e.row[e.cy + 1].chars)
             a == [b EXCEPT !.cx = Len(b.row[e.cy].chars)]
             c == editorDeleteRow(a, e.cy)
         IN  [c EXCEPT !.cy = @ - 1]

\* editorDeleteChar().
editorDeleteChar(e) ==
    IF e.cy = e.numrows \/ (e.cx = 0 /\ e.cy = 0) THEN e
    ELSE IF e.cx > 0
    THEN [editorRowDeleteChar(e, e.cy, e.cx - 1) EXCEPT !.cx = @ - 1]
    ELSE LET a == [e EXCEPT !.cx = Len(e.row[e.cy].chars)]
             b == editorRowAppendString(a, e.cy - 1, e.row[e.cy + 1].chars)
             c == editorDeleteRow(b, e.cy)
         IN  [c EXCEPT !.cy = @ - 1]

\* ------------------------------------------------------------------------
\* File i/o
\* ------------------------------------------------------------------------

RECURSIVE RowsToStringLoop(_, _, _)
\* The copy loop of editorRowsToString from row i on.
RowsToStringLoop(rows, i, out) ==
    IF i >= Len(rows) THEN out
    ELSE RowsToStringLoop(rows, i + 1, out \o rows[i + 1].chars \o <<Ch["\n"]>>)

\* editorRowsToString were no '\n' to follow the last row.
editorRowsToString_NoFinalNewline(e) ==
    LET out == RowsToStringLoop(SubSeq(e.row, 1, e.numrows), 0, <<>>)
    IN  SubSeq(out, 1, Len(out) - 1)

\* editorRowsToString: every row's chars followed by one '\n'.
editorRowsToString(e) == RowsToStringLoop(SubSeq(e.row, 1, e.numrows), 0, <<>>)

RECURSIVE getlines(_, _, _)
\* The successive results of getline on a stream holding bytes: each line
\* with its terminating '\n', the last one without when the stream does
\* not end in '\n'.
getlines(bytes, k, line) ==
    IF k > Len(bytes) THEN (IF line = <<>> THEN <<>> ELSE <<line>>)
    ELSE IF bytes[k] = Ch["\n"]
         THEN <<Append(line, bytes[k])>> \o getlines(bytes, k + 1, <<>>)
         ELSE getlines(bytes, k + 1, Append(line, bytes[k]))

\* StripLineEnd were only one trailing '\n' cut.
StripLineEnd_OnlyLF(line) ==
    IF Len(line) > 0 /\ line[Len(line)] = Ch["\n"]
    THEN SubSeq(line, 1, Len(line) - 1)
    ELSE line

RECURSIVE StripLineEnd(_)
\* The inner while loop of editorOpen: trailing '\n' and '\r' are cut.
StripLineEnd(line) ==
    IF Len(line) > 0 /\ (line[Len(line)] = Ch["\n"] \/ line[Len(line)] = Ch["\r"])
    THEN StripLineEnd(SubSeq(line, 1, Len(line) - 1))
    ELSE line

RECURSIVE UpdateSyntaxAll(_, _)
\* The loop of editorSelectSyntaxHighlight over every row from filerow on.
UpdateSyntaxAll(e, filerow) ==
    IF filerow >= e.numrows THEN e
    ELSE UpdateSyntaxAll(editorUpdateSyntax(e, filerow), filerow + 1)

\* editorSelectSyntaxHighlight().
editorSelectSyntaxHighlight(e) ==
    LET e0 == [e EXCEPT !.syntax = 0]
        ext == strrchr(e.filename, Ch["."])
        matches(pat) ==
            IF pat[1] = Ch["."] THEN ext # NULL /\ ext = pat
            ELSE strstr(e.filename, pat) # -1
        hits == {i \in 1..HLDB_ENTRIES :
                    \E j \in 1..Len(HLDB[i].filematch) : matches(HLDB[i].filematch[j])}
    IN  IF e.filename = NULL \/ hits = {} THEN e0
        ELSE UpdateSyntaxAll(
                 [e0 EXCEPT !.syntax = CHOOSE i \in hits : \A j \in hits : i <= j], 0)

RECURSIVE OpenLoop(_, _, _)
\* The getline loop of editorOpen from line k on.
OpenLoop(e, lines, k) ==
    IF k > Len(lines) THEN e
    ELSE OpenLoop(editorInsertRow(e, e.numrows, StripLineEnd(lines[k])), lines, k + 1)

\* editorOpen(filename) on a file holding bytes.
editorOpen(e, filename, bytes) ==
    LET e1 == editorSelectSyntaxHighlight([e EXCEPT !.filename = filename])
        e2 == OpenLoop(e1, getlines(bytes, 1, <<>>), 1)
    IN  [e2 EXCEPT !.dirty = FALSE]

\* ------------------------------------------------------------------------
\* Output: scrolling
\* ------------------------------------------------------------------------

\* editorScroll were a cursor past the window made the first visible row.
editorScroll_CursorOnTop(e) ==
    LET rx == IF e.cy < e.numrows THEN editorRowCxToRx(e.row[e.cy + 1], e.cx) ELSE 0
        ro1 == IF e.cy < e.rowoffset THEN e.cy ELSE e.rowoffset
        ro2 == IF e.cy >= ro1 + e.screenrows THEN e.cy ELSE ro1
        co1 == IF rx < e.coloffset THEN rx ELSE e.coloffset
        co2 == IF rx >= co1 + e.screencols THEN rx - e.screencols + 1 ELSE co1
    IN  [e EXCEPT !.rx = rx, !.rowoffset = ro2, !.coloffset = co2]

\* editorScroll were the row offset never pulled back up to the cursor.
editorScroll_NoPullBack(e) ==
    LET rx == IF e.cy < e.numrows THEN editorRowCxToRx(e.row[e.cy + 1], e.cx) ELSE 0
        ro2 == IF e.cy >= e.rowoffset + e.screenrows
               THEN e.cy - e.screenrows + 1 ELSE e.rowoffset
        co1 == IF rx < e.coloffset THEN rx ELSE e.coloffset
        co2 == IF rx >= co1 + e.screencols THEN rx - e.screencols + 1 ELSE co1
    IN  [e EXCEPT !.rx = rx, !.rowoffset = ro2, !.coloffset = co2]

\* editorScroll(), the part of editorRefreshScreen that changes E.
editorScroll(e) ==
    LET rx == IF e.cy < e.numrows THEN editorRowCxToRx(e.row[e.cy + 1], e.cx) ELSE 0
        ro1 == IF e.cy < e.rowoffset THEN e.cy ELSE e.rowoffset
        ro2 == IF e.cy >= ro1 + e.screenrows THEN e.cy - e.screenrows + 1 ELSE ro1
        co1 == IF rx < e.coloffset THEN rx ELSE e.coloffset
        co2 == IF rx >= co1 + e.screencols THEN rx - e.screencols + 1 ELSE co1
    IN  [e EXCEPT !.rx = rx, !.rowoffset = ro2, !.coloffset = co2]

\* editorRefreshScreen(): the frame is drawn from the scrolled state.
editorRefreshScreen(e) == editorScroll(e)

\* ------------------------------------------------------------------------
\* Input: editorReadKey
\* ------------------------------------------------------------------------

\* read(STDIN_FILENO, ., 1) on the reads to come s: the number of bytes read.
read(s) == IF s = <<>> THEN 0 ELSE Len(s[1])

\* The reads to come after one read of s.
AfterRead(s) == IF s = <<>> THEN s ELSE Tail(s)

\* The result of editorReadKey: the key c, the reads to come left.
Returns(c, left) == [c |-> c, stdin |-> left]

\* TildeKey without case '7' and case '8'.
TildeKey_NoSevenEight(seq1) ==
    CASE seq1 = Ch["1"] -> HOME
      [] seq1 = Ch["3"] -> DEL
      [] seq1 = Ch["4"] -> END
      [] seq1 = Ch["5"] -> PAGE_UP
      [] seq1 = Ch["6"] -> PAGE_DOWN
      [] OTHER -> Ch["ESC"]

\* switch (seq[1]) after seq[2] == '~'; no case: the function's last
\* return '\x1b'.
TildeKey(seq1) ==
    CASE seq1 = Ch["1"] -> HOME
      [] seq1 = Ch["3"] -> DEL
      [] seq1 = Ch["4"] -> END
      [] seq1 = Ch["5"] -> PAGE_UP
      [] seq1 = Ch["6"] -> PAGE_DOWN
      [] seq1 = Ch["7"] -> HOME
      [] seq1 = Ch["8"] -> END
      [] OTHER -> Ch["ESC"]

\* switch (seq[1]) after seq[0] == '[' and seq[1] no digit.
BracketKey(seq1) ==
    CASE seq1 = Ch["A"] -> ARROW_UP
      [] seq1 = Ch["B"] -> ARROW_DOWN
      [] seq1 = Ch["C"] -> ARROW_RIGHT
      [] seq1 = Ch["D"] -> ARROW_LEFT
      [] seq1 = Ch["H"] -> HOME
      [] seq1 = Ch["F"] -> END
      [] OTHER -> Ch["ESC"]

\* switch (seq[1]) after seq[0] == 'O'.
OKey(seq1) ==
    CASE seq1 = Ch["H"] -> HOME
      [] seq1 = Ch["F"] -> END
      [] OTHER -> Ch["ESC"]

\* ReadKeySeq were seq[2] not compared with '~'.
ReadKeySeq_AnyThirdByte(seq0, seq1, s) ==
    IF seq0 = Ch["["]
    THEN IF seq1 >= Ch["0"] /\ seq1 <= Ch["9"]
         THEN IF read(s) # 1 THEN Returns(Ch["ESC"], AfterRead(s))
              ELSE Returns(TildeKey(seq1), AfterRead(s))
         ELSE Returns(BracketKey(seq1), s)
    ELSE IF seq0 = Ch["O"] THEN Returns(OKey(seq1), s)
    ELSE Returns(Ch["ESC"], s)

\* editorReadKey after seq[0] and seq[1] were read.
ReadKeySeq(seq0, seq1, s) ==
    IF seq0 = Ch["["]
    THEN IF seq1 >= Ch["0"] /\ seq1 <= Ch["9"]
         THEN IF read(s) # 1 THEN Returns(Ch["ESC"], AfterRead(s))
              ELSE IF s[1][1] = Ch["~"] THEN Returns(TildeKey(seq1), AfterRead(s))
              ELSE Returns(Ch["ESC"], AfterRead(s))
         ELSE Returns(BracketKey(seq1), s)
    ELSE IF seq0 = Ch["O"] THEN Returns(OKey(seq1), s)
    ELSE Returns(Ch["ESC"], s)

\* editorReadKey after c == '\x1b' was read: the second read is made only
\* when the first returned a byte.
ReadKeyEscape(s) ==
    IF read(s) # 1 THEN Returns(Ch["ESC"], AfterRead(s))
    ELSE IF read(AfterRead(s)) # 1
    THEN Returns(Ch["ESC"], AfterRead(AfterRead(s)))
    ELSE ReadKeySeq(s[1][1], AfterRead(s)[1][1], AfterRead(AfterRead(s)))

RECURSIVE editorReadKey(_)
\* editorReadKey() on the reads to come s, one of which returns a byte:
\* the while loop reads until a read returns a byte.
editorReadKey(s) ==
    IF read(s) # 1 THEN editorReadKey(AfterRead(s))
    ELSE IF s[1][1] = Ch["ESC"] THEN ReadKeyEscape(AfterRead(s))
    ELSE Returns(s[1][1], AfterRead(s))

\* ------------------------------------------------------------------------
\* Input: cursor movement
\* ------------------------------------------------------------------------

\* editorMoveCursor(key).
editorMoveCursor(e, key) ==
    LET onrow == e.cy < e.numrows
        size == IF onrow THEN Len(e.row[e.cy + 1].chars) ELSE 0
        m == IF key = ARROW_LEFT THEN
                 IF e.cx # 0 THEN [e EXCEPT !.cx = @ - 1]
                 ELSE IF e.cy > 0
                      THEN [e EXCEPT !.cy = @ - 1, !.cx = Len(e.row[e.cy].chars)]
                      ELSE e
             ELSE IF key = ARROW_RIGHT THEN
                 IF onrow /\ e.cx < size THEN [e EXCEPT !.cx = @ + 1]
                 ELSE IF onrow /\ e.cx = size THEN [e EXCEPT !.cy = @ + 1, !.cx = 0]
                      ELSE e
             ELSE IF key = ARROW_UP THEN
                 IF e.cy # 0 THEN [e EXCEPT !.cy = @ - 1] ELSE e
             ELSE IF key = ARROW_DOWN THEN
                 IF e.cy < e.numrows THEN [e EXCEPT !.cy = @ + 1] ELSE e
             ELSE e
        rowlength == IF m.cy < m.numrows THEN Len(m.row[m.cy + 1].chars) ELSE 0
    IN  IF m.cx > rowlength THEN [m EXCEPT !.cx = rowlength] ELSE m

RECURSIVE MoveCursorTimes(_, _, _)
\* while (times > 0) { editorMoveCursor(key); --times; }
MoveCursorTimes(e, key, times) ==
    IF times > 0 THEN MoveCursorTimes(editorMoveCursor(e, key), key, times - 1)
    ELSE e

\* ------------------------------------------------------------------------
\* Find
\* ------------------------------------------------------------------------

RECURSIVE FindScan(_, _, _, _, _)
\* The scan loop of editorFindCallback from iteration i on: the row of the
\* first match, or -1 when the loop ends without one.
FindScan(e, query, dir, i, current) ==
    IF i >= e.numrows THEN -1
    ELSE LET c1 == current + dir
             c2 == IF c1 = -1 THEN e.numrows - 1
                   ELSE IF c1 = e.numrows THEN 0 ELSE c1
         IN  IF strstr(e.row[c2 + 1].render, query) # -1 THEN c2
             ELSE FindScan(e, query, dir, i + 1, c2)

\* FindRestore were the saved highlight freed without being copied back.
FindRestore_Forgets(st) == [st EXCEPT !.saved_highlight = NULL]

\* The start of editorFindCallback: the saved highlight is copied back
\* into its row and freed.
FindRestore(st) ==
    IF st.saved_highlight # NULL
    THEN [st EXCEPT !.E.row[st.saved_highlight_line + 1].highlight =
                        st.saved_highlight,
                    !.saved_highlight = NULL]
    ELSE st

\* FindDirection were the search started from scratch at every key.
FindDirection_Reanchors(st, key) ==
    [st EXCEPT !.last_match = -1, !.direction = 1]

\* FindDirection were every arrow key a step forward.
FindDirection_ArrowsForward(st, key) ==
    IF key \in {ARROW_RIGHT, ARROW_DOWN, ARROW_LEFT, ARROW_UP}
    THEN [st EXCEPT !.direction = 1]
    ELSE [st EXCEPT !.last_match = -1, !.direction = 1]

\* The key test of editorFindCallback for a key other than '\r' and
\* '\x1b', and the test of last_match that follows it.
FindDirection(st, key) ==
    IF key \in {ARROW_RIGHT, ARROW_DOWN}
    THEN [st EXCEPT !.direction = 1]
    ELSE IF key \in {ARROW_LEFT, ARROW_UP}
    THEN [st EXCEPT !.direction = IF st.last_match = -1 THEN 1 ELSE -1]
    ELSE [st EXCEPT !.last_match = -1, !.direction = 1]

\* The body of if (match): the row current matched query at render
\* offset match.
FindMatch(st, query, current, match) ==
    [st EXCEPT
        !.last_match = current,
        !.E.cy = current,
        !.E.cx = editorRowRxToCx(st.E.row[current + 1], match),
        !.E.rowoffset = st.E.numrows,
        !.saved_highlight_line = current,
        !.saved_highlight = st.E.row[current + 1].highlight,
        !.E.row[current + 1].highlight = memset(@, match, HL_MATCH, Len(query))]

\* FindFound were the cursor sent to the first row when no row matched.
FindFound_GoesHome(st, query, current) ==
    IF current = -1 THEN [st EXCEPT !.E.cx = 0, !.E.cy = 0]
    ELSE FindMatch(st, query, current,
                   strstr(st.E.row[current + 1].render, query))

\* The end of the scan loop of editorFindCallback, current being the row
\* FindScan found.
FindFound(st, query, current) ==
    IF current = -1 THEN st
    ELSE FindMatch(st, query, current,
                   strstr(st.E.row[current + 1].render, query))

\* The scan of editorFindCallback from the statics as the key left them.
FindSearch(st, query) ==
    FindFound(st, query, FindScan(st.E, query, st.direction, 0, st.last_match))

\* FindKey were the statics reset by '\x1b' alone.
FindKey_EnterKeeps(st, query, key) ==
    IF key = Ch["ESC"]
    THEN [st EXCEPT !.last_match = -1, !.direction = 1]
    ELSE IF key = Ch["\r"] THEN st
    ELSE FindSearch(FindDirection(st, key), query)

\* After the saved highlight is restored (st).
FindKey(st, query, key) ==
    IF key = Ch["\r"] \/ key = Ch["ESC"]
    THEN [st EXCEPT !.last_match = -1, !.direction = 1]
    ELSE FindSearch(FindDirection(st, key), query)

\* editorFindCallback(query, key) on st: the editor state E and the
\* function's static locals.
editorFindCallback(st, query, key) == FindKey(FindRestore(st), query, key)

\* ------------------------------------------------------------------------
\* Save
\* ------------------------------------------------------------------------

\* The status messages the source sets, by their format strings.
MsgHelp == "HELP: Ctrl-Q = quit, Ctrl-S = save, CTRL-F = find"
MsgWarning == "Warning! Unsaved changes. Press Ctrl-Q %d more times to quit."
MsgAborted == "Save aborted"
MsgWritten == "%d bytes written to disk"
MsgCantSave == "Can't save! I/O error: %s"
MsgSaveAs == "Save as: %s (ESC to cancel)"
MsgSearch == "Search: %s (Use ESC/Enter/Arrows)"

\* editorSetStatusMessage(fmt, n): n is the integer argument, 0 without one.
editorSetStatusMessage(e, fmt, n) == [e EXCEPT !.statusmsg = [fmt |-> fmt, n |-> n]]

\* editorSaveWrite were E.dirty cleared before the file is opened.
editorSaveWrite_ClearsFirst(e, ok) ==
    IF ok
    THEN editorSetStatusMessage([e EXCEPT !.dirty = FALSE], MsgWritten,
                                Len(editorRowsToString(e)))
    ELSE editorSetStatusMessage([e EXCEPT !.dirty = FALSE], MsgCantSave, 0)

\* editorSaveWrite were E.dirty left set by a successful write.
editorSaveWrite_KeepsDirty(e, ok) ==
    IF ok THEN editorSetStatusMessage(e, MsgWritten, Len(editorRowsToString(e)))
    ELSE editorSetStatusMessage(e, MsgCantSave, 0)

\* The part of editorSave after the file name is known: the rows are
\* serialized and written; ok tells whether open, ftruncate and write all
\* succeeded.
editorSaveWrite(e, ok) ==
    LET len == Len(editorRowsToString(e))
    IN  IF ok
        THEN editorSetStatusMessage([e EXCEPT !.dirty = FALSE], MsgWritten, len)
        ELSE editorSetStatusMessage(e, MsgCantSave, 0)

\* How a save ends: every call succeeds, or open, ftruncate or write fails.
SaveOutcomes == {"written", "open", "ftruncate", "write"}

\* The file editorSave leaves behind, d being the file before (NULL: none):
\* open creates it, ftruncate cuts or zero-fills it to the length of the
\* serialization, write fills it; a failing write has written nothing.
editorSaveFile(e, d, outcome) ==
    CASE outcome = "open" -> d
      [] outcome = "ftruncate" -> IF d = NULL THEN <<>> ELSE d
      [] outcome = "write" ->
            [i \in 1..Len(editorRowsToString(e)) |->
                IF d # NULL /\ i <= Len(d) THEN d[i] ELSE 0]
      [] OTHER -> editorRowsToString(e)

\* ------------------------------------------------------------------------
\* State
\* ------------------------------------------------------------------------

VARIABLES
    E,                     \* struct editorConfig E
    quit_times,            \* static of editorProcessKeypress
    last_match,            \* statics of editorFindCallback
    direction,
    saved_highlight_line,
    saved_highlight,
    pc,                    \* where the next key is read: "main" in
                           \* editorProcessKeypress, "find" / "save" in the
                           \* editorPrompt of editorFind / editorSave,
                           \* "exit" after exit(0)
    buf,                   \* buf of editorPrompt
    saved_cursor,          \* saved_cx, saved_cy, saved_coloffset,
                           \* saved_rowoffset of editorFind
    keys,                  \* the key codes the terminal sends in this run
    edits,                 \* how many more editing keys the run may hold
    saved,                 \* history: the rows' chars at the last load or
                           \* successful save
    touched,               \* history: a key event changed the document
                           \* since then
    quitRun,               \* history: how many quit keys were read in a row
    typed,                 \* history: the rows and the cursor before a
                           \* character was typed, while the key events
                           \* since are that insertion (stage 1) and one
                           \* Backspace after it (stage 2); the same before
                           \* Enter was pressed (stage 3) and one Backspace
                           \* after it (stage 4); stage 0 otherwise
    disk,                  \* the bytes of the file E.filename names, NULL
                           \* while there is none
    input,                 \* the bytes of that file when the program started
    restarted,             \* the program has exited and was started again
    started,               \* history: E when the last search was started
    found,                 \* history: <<last_match, direction>> after each
                           \* callback of this search that matched, the
                           \* last MaxFound of them
    stdin,                 \* what the reads of STDIN_FILENO to come return,
                           \* in order: <<b>> for the byte b, <<>> for a
                           \* read that times out; after them every read
                           \* times out
    keyRead,               \* what the last call of editorReadKey returned
    consumed,              \* history: the reads of that call
    called                 \* history: the row operation called last, its
                           \* index argument i, its row k and E before it

vars == <<E, quit_times, last_match, direction, saved_highlight_line,
          saved_highlight, pc, buf, saved_cursor, keys, edits, saved,
          touched, quitRun, typed, disk, input, restarted, started, found,
          stdin, keyRead, consumed, called>>

findVars == <<last_match, direction, saved_highlight_line, saved_highlight>>
promptVars == <<pc, buf, saved_cursor>>
sessionVars == <<started, found>>
readVars == <<stdin, keyRead, consumed>>

\* The chars of every row, in row order.
Chars(e) == [i \in 1..e.numrows |-> e.row[i].chars]

\* No character was typed by the last key event.
NoTyped == [stage |-> 0, chars |-> <<>>, cx |-> 0, cy |-> 0, numrows |-> 0]

\* No row operation has been called on its own.
NoCall(e) == [op |-> "", i |-> 0, k |-> 0, E |-> e]

\* The size of the row the cursor is on, 0 on the virtual row past the end.
CursorRowSize(e) == IF e.cy < e.numrows THEN Len(e.row[e.cy + 1].chars) ELSE 0

\* initEditor() on a terminal window of rows x cols.
initEditor(rows, cols) ==
    [cx |-> 0, cy |-> 0, rx |-> 0, rowoffset |-> 0, coloffset |-> 0,
     screenrows |-> rows - 2, screencols |-> cols,
     numrows |-> 0, filename |-> NULL, row |-> <<>>,
     statusmsg |-> [fmt |-> "", n |-> 0], syntax |-> 0, dirty |-> FALSE]

\* main() up to the first frame: argv[1] is file (NULL without one), a
\* file holding bytes.
main(rows, cols, file, bytes) ==
    LET e0 == initEditor(rows, cols)
        e1 == IF file # NULL THEN editorOpen(e0, file, bytes) ELSE e0
    IN  editorRefreshScreen(editorSetStatusMessage(e1, MsgHelp, 0))

\* ------------------------------------------------------------------------
\* The runs explored: terminal size, file opened, keys sent
\* ------------------------------------------------------------------------

\* How many editing keys (Enter, Backspace, Delete, a character) a run holds.
MaxEdits == 2

\* How many bytes a prompt buffer holds at most.
MaxBuf == 3

\* The bytes of a string given as a tuple of one-character strings.
Bytes(t) == [i \in 1..Len(t) |-> Ch[t[i]]]

MoveKeys == {ARROW_LEFT, ARROW_RIGHT, ARROW_UP, ARROW_DOWN}
EditKeys == {Ch["\r"], BACKSPACE, DEL}

Runs ==
    { \* a C file whose first row opens a block comment: editing
      [rows |-> 4, cols |-> 3, file |-> Bytes(<<"a", ".", "c">>),
       bytes |-> Bytes(<<"/", "*", "/", "\n", "a", "\n">>),
       keys |-> MoveKeys \cup EditKeys \cup {Ch["/"], Ch["*"]},
       edits |-> MaxEdits],
      \* no file: typing, saving under a new name, quitting
      [rows |-> 4, cols |-> 3, file |-> NULL, bytes |-> <<>>,
       keys |-> {Ch["."], Ch["c"], Ch["\r"], Ch["ESC"], BACKSPACE,
                 CTRL_KEY("q"), CTRL_KEY("s")},
       edits |-> MaxEdits],
      \* a text file with tabs, larger than the window: moving, one edit
      [rows |-> 4, cols |-> 3, file |-> Bytes(<<"t">>),
       bytes |-> Bytes(<<"a", "\t", "b", "\r", "\n", "\n", "\t", "\n",
                         "a", "b", "a", "b", "\n", "b">>),
       keys |-> MoveKeys \cup EditKeys \cup
                {HOME, END, PAGE_UP, PAGE_DOWN, CTRL_KEY("p"), CTRL_KEY("n"),
                 CTRL_KEY("l"), CTRL_KEY("s"), Ch["a"]},
       edits |-> 1],
      \* the same file: searching
      [rows |-> 4, cols |-> 3, file |-> Bytes(<<"t">>),
       bytes |-> Bytes(<<"a", "\t", "b", "\r", "\n", "\n", "\t", "\n",
                         "a", "b", "a", "b", "\n", "b">>),
       keys |-> {ARROW_DOWN, ARROW_RIGHT,
                 CTRL_KEY("f"), Ch["b"], Ch["\r"], Ch["ESC"], BACKSPACE},
       edits |-> 0],
      \* the same file in a window of one text row and one column
      [rows |-> 3, cols |-> 1, file |-> Bytes(<<"t">>),
       bytes |-> Bytes(<<"a", "\t", "b", "\r", "\n", "\n", "\t", "\n",
                         "a", "b", "a", "b", "\n", "b">>),
       keys |-> MoveKeys \cup
                {END, PAGE_UP, PAGE_DOWN, BACKSPACE, Ch["\t"]},
       edits |-> 1] }

\* The state in which the first key of run is read.
InitRun(run) ==
        /\ E = main(run.rows, run.cols, run.file, run.bytes)
        /\ quit_times = 3
        /\ last_match = -1
        /\ direction = 1
        /\ saved_highlight_line = 0
        /\ saved_highlight = NULL
        /\ pc = "main"
        /\ buf = <<>>
        /\ saved_cursor = [cx |-> 0, cy |-> 0, coloffset |-> 0, rowoffset |-> 0]
        /\ keys = run.keys
        /\ edits = run.edits
        /\ saved = Chars(E)
        /\ touched = FALSE
        /\ quitRun = 0
        /\ typed = NoTyped
        /\ disk = (IF run.file # NULL THEN run.bytes ELSE NULL)
        /\ input = disk
        /\ restarted = FALSE
        /\ started = E
        /\ found = <<>>
        /\ called = NoCall(E)

\* The keys of a run are given as editorReadKey returns them (keys): no
\* read is modelled.
NoReads == stdin = <<>> /\ keyRead = 0 /\ consumed = <<>>

Init == NoReads /\ \E run \in Runs : InitRun(run)

\* ------------------------------------------------------------------------
\* editorProcessKeypress: one action per case, each followed by the frame
\* the main loop draws before the next key is read
\* ------------------------------------------------------------------------

\* BreakTyped were quit_times left alone at the end of a case.
BreakTyped_NoReset(e, t) ==
    /\ E' = editorRefreshScreen(e)
    /\ typed' = t
    /\ quitRun' = 0
    /\ touched' = (touched \/ Chars(e) # Chars(E))
    /\ UNCHANGED <<quit_times, keys, readVars, called, saved, disk, input, restarted>>

\* The end of a case that breaks: quit_times = 3, then editorRefreshScreen.
BreakTyped(e, t) ==
    /\ E' = editorRefreshScreen(e)
    /\ typed' = t
    /\ quit_times' = 3
    /\ quitRun' = 0
    /\ touched' = (touched \/ Chars(e) # Chars(E))
    /\ UNCHANGED <<keys, readVars, called, saved, disk, input, restarted>>

Break(e) == BreakTyped(e, NoTyped)

\* case '\r'
KeyEnter ==
    /\ pc = "main" /\ Ch["\r"] \in keys /\ edits > 0
    /\ BreakTyped(editorInsertNewline(E),
                  [stage |-> 3, chars |-> Chars(E), cx |-> E.cx, cy |-> E.cy,
                   numrows |-> E.numrows])
    /\ edits' = edits - 1
    /\ UNCHANGED <<findVars, promptVars, sessionVars>>

\* case CTRL_KEY('q'), E.dirty && quit_times > 0: the warning
KeyQuitWarn ==
    /\ pc = "main" /\ CTRL_KEY("q") \in keys
    /\ E.dirty /\ quit_times > 0
    /\ E' = editorRefreshScreen(editorSetStatusMessage(E, MsgWarning, quit_times))
    /\ quit_times' = quit_times - 1
    /\ quitRun' = quitRun + 1
    /\ typed' = NoTyped
    /\ UNCHANGED <<findVars, promptVars, sessionVars, keys, readVars, called, edits, saved, touched, disk,
                   input, restarted>>

\* case CTRL_KEY('q'), otherwise: exit(0)
KeyQuitExit ==
    /\ pc = "main" /\ CTRL_KEY("q") \in keys
    /\ ~(E.dirty /\ quit_times > 0)
    /\ pc' = "exit"
    /\ quitRun' = quitRun + 1
    /\ typed' = NoTyped
    /\ UNCHANGED <<E, quit_times, findVars, buf, saved_cursor, sessionVars, keys, readVars, called, edits,
                   saved, touched, disk, input, restarted>>

\* case CTRL_KEY('s') with a file name, editorSave ending in outcome
KeySaveOutcome(outcome) ==
    /\ pc = "main" /\ CTRL_KEY("s") \in keys
    /\ E.filename # NULL
    /\ LET ok == (outcome = "written")
       IN  /\ E' = editorRefreshScreen(editorSaveWrite(E, ok))
           /\ disk' = editorSaveFile(E, disk, outcome)
           /\ saved' = IF ok THEN Chars(E) ELSE saved
           /\ touched' = IF ok THEN FALSE ELSE touched
    /\ quit_times' = 3
    /\ quitRun' = 0
    /\ typed' = NoTyped
    /\ UNCHANGED <<findVars, promptVars, sessionVars, keys, readVars, called, edits, input, restarted>>

\* case CTRL_KEY('s') with a file name: editorSave writes, or fails to
KeySave == \E outcome \in SaveOutcomes : KeySaveOutcome(outcome)

\* KeySaveAs were the prompt opened whether or not there is a file name.
KeySaveAs_Always ==
    /\ pc = "main" /\ CTRL_KEY("s") \in keys
    /\ pc' = "save"
    /\ buf' = <<>>
    /\ E' = editorRefreshScreen(editorSetStatusMessage(E, MsgSaveAs, 0))
    /\ quitRun' = 0
    /\ typed' = NoTyped
    /\ UNCHANGED <<quit_times, findVars, saved_cursor, sessionVars, keys, readVars, called, edits,
                   saved, touched, disk, input, restarted>>

\* case CTRL_KEY('s') without a file name: editorSave opens the prompt
KeySaveAs ==
    /\ pc = "main" /\ CTRL_KEY("s") \in keys
    /\ E.filename = NULL
    /\ pc' = "save"
    /\ buf' = <<>>
    /\ E' = editorRefreshScreen(editorSetStatusMessage(E, MsgSaveAs, 0))
    /\ quitRun' = 0
    /\ typed' = NoTyped
    /\ UNCHANGED <<quit_times, findVars, saved_cursor, sessionVars, keys, readVars, called, edits,
                   saved, touched, disk, input, restarted>>

\* case HOME
KeyHome ==
    /\ pc = "main" /\ HOME \in keys
    /\ Break([E EXCEPT !.cx = 0])
    /\ UNCHANGED <<findVars, promptVars, sessionVars, edits>>

\* case END
KeyEnd ==
    /\ pc = "main" /\ END \in keys
    /\ Break(IF E.cy < E.numrows
             THEN [E EXCEPT !.cx = Len(E.row[E.cy + 1].chars)] ELSE E)
    /\ UNCHANGED <<findVars, promptVars, sessionVars, edits>>

\* case CTRL_KEY('f'): editorFind opens the prompt
KeyFind ==
    /\ pc = "main" /\ CTRL_KEY("f") \in keys
    /\ saved_cursor' = [cx |-> E.cx, cy |-> E.cy, coloffset |-> E.coloffset,
                        rowoffset |-> E.rowoffset]
    /\ pc' = "find"
    /\ buf' = <<>>
    /\ started' = E
    /\ found' = <<>>
    /\ E' = editorRefreshScreen(editorSetStatusMessage(E, MsgSearch, 0))
    /\ quitRun' = 0
    /\ typed' = NoTyped
    /\ UNCHANGED <<quit_times, findVars, keys, readVars, called, edits, saved, touched, disk,
                   input, restarted>>

\* case BACKSPACE
KeyBackspace ==
    /\ pc = "main" /\ BACKSPACE \in keys /\ edits > 0
    /\ BreakTyped(editorDeleteChar(E),
                  IF typed.stage \in {1, 3} THEN [typed EXCEPT !.stage = @ + 1]
                  ELSE NoTyped)
    /\ edits' = edits - 1
    /\ UNCHANGED <<findVars, promptVars, sessionVars>>

\* case DEL
KeyDel ==
    /\ pc = "main" /\ DEL \in keys /\ edits > 0
    /\ Break(editorDeleteChar(editorMoveCursor(E, ARROW_RIGHT)))
    /\ edits' = edits - 1
    /\ UNCHANGED <<findVars, promptVars, sessionVars>>

\* case PAGE_UP
KeyPageUp ==
    /\ pc = "main" /\ PAGE_UP \in keys
    /\ Break(MoveCursorTimes([E EXCEPT !.cy = E.rowoffset], ARROW_UP, E.screenrows))
    /\ UNCHANGED <<findVars, promptVars, sessionVars, edits>>

\* case PAGE_DOWN
KeyPageDown ==
    /\ pc = "main" /\ PAGE_DOWN \in keys
    /\ LET cy1 == E.rowoffset + E.screenrows - 1
           cy2 == IF cy1 > E.numrows THEN E.numrows ELSE cy1
       IN  Break(MoveCursorTimes([E EXCEPT !.cy = cy2], ARROW_DOWN, E.screenrows))
    /\ UNCHANGED <<findVars, promptVars, sessionVars, edits>>

\* case CTRL_KEY('p')
KeyCtrlP ==
    /\ pc = "main" /\ CTRL_KEY("p") \in keys
    /\ Break(editorMoveCursor(E, ARROW_UP))
    /\ UNCHANGED <<findVars, promptVars, sessionVars, edits>>

\* case CTRL_KEY('n')
KeyCtrlN ==
    /\ pc = "main" /\ CTRL_KEY("n") \in keys
    /\ Break(editorMoveCursor(E, ARROW_DOWN))
    /\ UNCHANGED <<findVars, promptVars, sessionVars, edits>>

\* case ARROW_UP, ARROW_DOWN, ARROW_LEFT, ARROW_RIGHT
KeyArrow ==
    /\ pc = "main"
    /\ \E c \in keys \cap MoveKeys : Break(editorMoveCursor(E, c))
    /\ UNCHANGED <<findVars, promptVars, sessionVars, edits>>

\* case CTRL_KEY('l'), '\x1b'
KeyNothing ==
    /\ pc = "main"
    /\ keys \cap {CTRL_KEY("l"), Ch["ESC"]} # {}
    /\ Break(E)
    /\ UNCHANGED <<findVars, promptVars, sessionVars, edits>>

\* The key codes that reach the default case.
DefaultKeys ==
    keys \ ({Ch["\r"], CTRL_KEY("q"), CTRL_KEY("s"), HOME, END, CTRL_KEY("f"),
             BACKSPACE, DEL, PAGE_UP, PAGE_DOWN, CTRL_KEY("p"), CTRL_KEY("n"),
             CTRL_KEY("l"), Ch["ESC"]} \cup MoveKeys)

\* default: editorInsertChar(c)
KeyChar ==
    /\ pc = "main" /\ edits > 0
    /\ \E c \in DefaultKeys :
        BreakTyped(editorInsertChar(E, c),
                   [stage |-> 1, chars |-> Chars(E), cx |-> E.cx, cy |-> E.cy,
                    numrows |-> E.numrows])
    /\ edits' = edits - 1
    /\ UNCHANGED <<findVars, promptVars, sessionVars>>

\* ------------------------------------------------------------------------
\* editorPrompt: one action per branch of its key test, each followed by
\* the callback (editorFindCallback for editorFind, none for editorSave)
\* and by what runs until the next key is read
\* ------------------------------------------------------------------------

\* if (callback) callback(buf, c), on the editor state and the statics.
Callback(q, c) ==
    LET st == [E |-> E, last_match |-> last_match, direction |-> direction,
               saved_highlight_line |-> saved_highlight_line,
               saved_highlight |-> saved_highlight]
    IN  IF pc = "find" THEN editorFindCallback(st, q, c) ELSE st

\* How many matched rows the history of a search keeps.
MaxFound == 3

\* The history of matched rows after a callback that left st: a callback
\* that matched leaves its row in last_match and a saved highlight.
FoundNext(f, st) ==
    IF st.saved_highlight = NULL THEN f
    ELSE IF Len(f) < MaxFound THEN Append(f, <<st.last_match, st.direction>>)
    ELSE Append(Tail(f), <<st.last_match, st.direction>>)

\* The statics of editorFindCallback take their values from st.
SetFindVars(st) ==
    /\ last_match' = st.last_match
    /\ direction' = st.direction
    /\ saved_highlight_line' = st.saved_highlight_line
    /\ saved_highlight' = st.saved_highlight

\* The prompt goes round its loop: the status message is set from the
\* prompt and the buffer, the frame is drawn, the next key is awaited.
PromptLoop(st, newbuf) ==
    /\ E' = editorRefreshScreen(
               editorSetStatusMessage(st.E, IF pc = "find" THEN MsgSearch
                                                            ELSE MsgSaveAs, 0))
    /\ SetFindVars(st)
    /\ buf' = newbuf
    /\ found' = FoundNext(found, st)
    /\ touched' = (touched \/ Chars(st.E) # Chars(E))
    /\ UNCHANGED <<pc, saved_cursor, quit_times, keys, readVars, called, edits, saved, quitRun,
                   typed, disk, input, restarted, started>>

\* c == DEL || c == BACKSPACE
PromptBackspace ==
    /\ pc \in {"find", "save"}
    /\ \E c \in keys \cap {DEL, BACKSPACE} :
        LET newbuf == IF Len(buf) # 0 THEN SubSeq(buf, 1, Len(buf) - 1) ELSE buf
        IN  PromptLoop(Callback(newbuf, c), newbuf)

\* PromptEnterEmpty were the empty buffer returned as any other.
PromptEnterEmpty_Returns ==
    /\ pc \in {"find", "save"}
    /\ Ch["\r"] \in keys
    /\ Len(buf) = 0
    /\ E' = editorRefreshScreen(editorSetStatusMessage(E, "", 0))
    /\ SetFindVars(Callback(buf, Ch["\r"]))
    /\ pc' = "main"
    /\ buf' = <<>>
    /\ quit_times' = 3
    /\ UNCHANGED <<saved_cursor, sessionVars, keys, readVars, called, edits,
                   quitRun, typed, input, restarted, saved, touched, disk>>

\* c == '\r' with an empty buffer: the prompt stays open
PromptEnterEmpty ==
    /\ pc \in {"find", "save"}
    /\ Ch["\r"] \in keys
    /\ Len(buf) = 0
    /\ PromptLoop(Callback(buf, Ch["\r"]), buf)

\* PromptChar were the callback called before the byte is appended.
PromptChar_BeforeAppend ==
    /\ pc \in {"find", "save"}
    /\ Len(buf) < MaxBuf
    /\ \E c \in keys \ {DEL, BACKSPACE, Ch["ESC"], Ch["\r"]} :
        /\ ~iscntrl(c) /\ c < 128
        /\ PromptLoop(Callback(buf, c), Append(buf, c))

\* !iscntrl(c) && c < 128: the byte is appended
PromptChar ==
    /\ pc \in {"find", "save"}
    /\ Len(buf) < MaxBuf
    /\ \E c \in keys \ {DEL, BACKSPACE, Ch["ESC"], Ch["\r"]} :
        /\ ~iscntrl(c) /\ c < 128
        /\ PromptLoop(Callback(Append(buf, c), c), Append(buf, c))

\* any other key: the buffer is left alone
PromptOtherKey ==
    /\ pc \in {"find", "save"}
    /\ \E c \in keys \ {DEL, BACKSPACE, Ch["ESC"], Ch["\r"]} :
        /\ ~(~iscntrl(c) /\ c < 128)
        /\ PromptLoop(Callback(buf, c), buf)

\* The prompt returns to editorFind or editorSave, whose case then breaks.
PromptReturn(e, st) ==
    /\ E' = editorRefreshScreen(e)
    /\ SetFindVars(st)
    /\ pc' = "main"
    /\ buf' = <<>>
    /\ quit_times' = 3
    /\ UNCHANGED <<saved_cursor, sessionVars, keys, readVars, called, edits, quitRun, typed, input,
                   restarted>>

\* FindEscape were the prompt's result not tested by editorFind.
FindEscape_NoRestore ==
    /\ pc = "find" /\ Ch["ESC"] \in keys
    /\ LET st == Callback(buf, Ch["ESC"])
       IN  /\ PromptReturn(editorSetStatusMessage(st.E, "", 0), st)
           /\ touched' = (touched \/ Chars(st.E) # Chars(E))
    /\ UNCHANGED <<saved, disk>>

\* c == '\x1b' in the prompt of editorFind: the saved cursor is restored
FindEscape ==
    /\ pc = "find" /\ Ch["ESC"] \in keys
    /\ LET st == Callback(buf, Ch["ESC"])
           e1 == editorSetStatusMessage(st.E, "", 0)
       IN  /\ PromptReturn([e1 EXCEPT !.cx = saved_cursor.cx,
                                      !.cy = saved_cursor.cy,
                                      !.coloffset = saved_cursor.coloffset,
                                      !.rowoffset = saved_cursor.rowoffset], st)
           /\ touched' = (touched \/ Chars(st.E) # Chars(E))
    /\ UNCHANGED <<saved, disk>>

\* c == '\r' with a non-empty buffer in the prompt of editorFind
FindEnter ==
    /\ pc = "find" /\ Ch["\r"] \in keys
    /\ Len(buf) # 0
    /\ LET st == Callback(buf, Ch["\r"])
       IN  /\ PromptReturn(editorSetStatusMessage(st.E, "", 0), st)
           /\ touched' = (touched \/ Chars(st.E) # Chars(E))
    /\ UNCHANGED <<saved, disk>>

\* c == '\x1b' in the prompt of editorSave: "Save aborted"
SaveEscape ==
    /\ pc = "save" /\ Ch["ESC"] \in keys
    /\ PromptReturn(editorSetStatusMessage(E, MsgAborted, 0), Callback(buf, Ch["ESC"]))
    /\ UNCHANGED <<saved, touched, disk>>

\* c == '\r' with a non-empty buffer in the prompt of editorSave: the
\* buffer becomes the file name, the syntax is selected, and the writing
\* of the file ends in outcome
SaveEnterOutcome(outcome) ==
    /\ pc = "save" /\ Ch["\r"] \in keys
    /\ Len(buf) # 0
    /\ LET e1 == editorSelectSyntaxHighlight([E EXCEPT !.filename = buf])
           ok == (outcome = "written")
       IN  /\ PromptReturn(editorSaveWrite(e1, ok), Callback(buf, Ch["\r"]))
           /\ disk' = editorSaveFile(e1, disk, outcome)
           /\ saved' = IF ok THEN Chars(e1) ELSE saved
           /\ touched' = IF ok THEN FALSE ELSE (touched \/ Chars(e1) # Chars(E))

SaveEnter == \E outcome \in SaveOutcomes : SaveEnterOutcome(outcome)

Next ==
    \/ KeyEnter \/ KeyQuitWarn \/ KeyQuitExit \/ KeySave \/ KeySaveAs
    \/ KeyHome \/ KeyEnd \/ KeyFind \/ KeyBackspace \/ KeyDel
    \/ KeyPageUp \/ KeyPageDown \/ KeyCtrlP \/ KeyCtrlN \/ KeyArrow
    \/ KeyNothing \/ KeyChar
    \/ PromptBackspace \/ PromptEnterEmpty \/ PromptChar \/ PromptOtherKey
    \/ FindEscape \/ FindEnter \/ SaveEscape \/ SaveEnter

Spec == Init /\ [][Next]_vars

\* ------------------------------------------------------------------------
\* Searching: the program is started on a file and the keys are those of
\* moving the cursor and of editorFind
\* ------------------------------------------------------------------------

FindRuns ==
    { \* the rows "foo", "bar", "foo"
      [rows |-> 4, cols |-> 3, file |-> Bytes(<<"t">>),
       bytes |-> Bytes(<<"f", "o", "o", "\n", "b", "a", "r", "\n",
                         "f", "o", "o", "\n">>),
       keys |-> {ARROW_DOWN, ARROW_RIGHT, ARROW_UP,
                 CTRL_KEY("f"), Ch["f"], Ch["o"], Ch["\r"], Ch["ESC"]},
       edits |-> 0],
      \* a C file with a string, a number and a comment
      [rows |-> 4, cols |-> 3, file |-> Bytes(<<"a", ".", "c">>),
       bytes |-> Bytes(<<"\"", "a", "\"", "1", "\n", "1", "/", "/", "a", "\n">>),
       keys |-> {ARROW_DOWN, ARROW_UP, ARROW_RIGHT,
                 CTRL_KEY("f"), Ch["a"], Ch["1"], Ch["\r"], Ch["ESC"], DEL},
       edits |-> 0],
      \* a text file with tabs in a window of one text row and one column
      [rows |-> 3, cols |-> 1, file |-> Bytes(<<"t">>),
       bytes |-> Bytes(<<"a", "\t", "b", "\r", "\n", "\n", "\t", "\n",
                         "a", "b", "a", "b", "\n", "b">>),
       keys |-> {ARROW_DOWN, ARROW_RIGHT,
                 CTRL_KEY("f"), Ch["b"], Ch["\r"], Ch["ESC"]},
       edits |-> 0] }

FindInit == NoReads /\ \E run \in FindRuns : InitRun(run)

FindNext ==
    \/ KeyFind \/ KeyArrow
    \/ PromptBackspace \/ PromptEnterEmpty \/ PromptChar \/ PromptOtherKey
    \/ FindEscape \/ FindEnter

FindSpec == FindInit /\ [][FindNext]_vars

\* ------------------------------------------------------------------------
\* Loading and saving: the program is started on a file, saves it, exits
\* and is started on it again
\* ------------------------------------------------------------------------

\* How many bytes a file of these runs holds at most.
MaxFile == 5

\* The bytes the files are made of: the comment and string markers of the
\* C profile, carriage return and line feed.
FileAlphabet == {Ch["/"], Ch["*"], Ch["\""], Ch["\r"], Ch["\n"]}

\* A block comment spanning three rows, and escapes inside strings.
FileExamples ==
    { Bytes(<<"/", "*", " ", "s", "t", "a", "r", "t", "\n",
              "m", "i", "d", "d", "l", "e", "\n",
              "e", "n", "d", " ", "*", "/", " ", "c", "o", "d", "e", "\n">>),
      Bytes(<<"\"", "\\", "\"", "/", "*", "\"", "/", "*", "\n", "'", "*", "/", "'">>),
      Bytes(<<"'", "\"", "/", "*", "\\", "\n", "/", "/", "*", "/", "/", "*", "\r", "\n", "i", "f">>) }

Files == UNION {[1..n -> FileAlphabet] : n \in 0..MaxFile} \cup FileExamples

LoadInit ==
    \E bytes \in Files :
        /\ E = main(4, 3, Bytes(<<"a", ".", "c">>), bytes)
        /\ quit_times = 3
        /\ last_match = -1
        /\ direction = 1
        /\ saved_highlight_line = 0
        /\ saved_highlight = NULL
        /\ pc = "main"
        /\ buf = <<>>
        /\ saved_cursor = [cx |-> 0, cy |-> 0, coloffset |-> 0, rowoffset |-> 0]
        /\ keys = {CTRL_KEY("s"), CTRL_KEY("q")}
        /\ edits = 0
        /\ saved = Chars(E)
        /\ touched = FALSE
        /\ quitRun = 0
        /\ typed = NoTyped
        /\ disk = bytes
        /\ input = bytes
        /\ restarted = FALSE
        /\ started = E
        /\ found = <<>>
        /\ called = NoCall(E)
        /\ stdin = <<>>
        /\ keyRead = 0
        /\ consumed = <<>>

\* After exit(0) the program is started again, in the same window, on the
\* file it was editing: main() up to the first frame.
Restart ==
    /\ pc = "exit" /\ ~restarted
    /\ disk # NULL
    /\ E' = main(E.screenrows + 2, E.screencols, E.filename, disk)
    /\ quit_times' = 3
    /\ last_match' = -1
    /\ direction' = 1
    /\ saved_highlight_line' = 0
    /\ saved_highlight' = NULL
    /\ pc' = "main"
    /\ buf' = <<>>
    /\ saved_cursor' = [cx |-> 0, cy |-> 0, coloffset |-> 0, rowoffset |-> 0]
    /\ saved' = Chars(E')
    /\ touched' = FALSE
    /\ quitRun' = 0
    /\ typed' = NoTyped
    /\ restarted' = TRUE
    /\ started' = E'
    /\ found' = <<>>
    /\ called' = NoCall(E')
    /\ UNCHANGED <<keys, readVars, edits, disk, input>>

LoadNext == KeySave \/ KeyQuitExit \/ Restart

LoadSpec == LoadInit /\ [][LoadNext]_vars

\* ------------------------------------------------------------------------
\* A window too small for text rows: a terminal of two lines or one, both
\* taken by the status bar and the message bar
\* ------------------------------------------------------------------------

SmallWindowFiles ==
    { Bytes(<<"a", "\t", "b", "\r", "\n", "\n", "a", "b", "\n">>),
      Bytes(<<"\n", "\n", "\r", "\n", "b">>), <<>> }

SmallWindowInit ==
    \E rows \in {1, 2}, bytes \in SmallWindowFiles :
        /\ E = main(rows, 3, Bytes(<<"t">>), bytes)
        /\ quit_times = 3
        /\ last_match = -1
        /\ direction = 1
        /\ saved_highlight_line = 0
        /\ saved_highlight = NULL
        /\ pc = "main"
        /\ buf = <<>>
        /\ saved_cursor = [cx |-> 0, cy |-> 0, coloffset |-> 0, rowoffset |-> 0]
        /\ keys = {PAGE_UP, PAGE_DOWN, ARROW_UP, ARROW_DOWN, HOME,
                   CTRL_KEY("n"), CTRL_KEY("p"), CTRL_KEY("l"), CTRL_KEY("s")}
        /\ edits = 0
        /\ saved = Chars(E)
        /\ touched = FALSE
        /\ quitRun = 0
        /\ typed = NoTyped
        /\ disk = bytes
        /\ input = bytes
        /\ restarted = FALSE
        /\ started = E
        /\ found = <<>>
        /\ called = NoCall(E)
        /\ stdin = <<>>
        /\ keyRead = 0
        /\ consumed = <<>>

\* The keys of these runs: none moves the cursor column, which stays 0,
\* and Page Up is followed as long as the cursor is at most one row past
\* the virtual row.
SmallWindowNext ==
    \/ (E.cy <= E.numrows + 1 /\ KeyPageUp) \/ KeyPageDown
    \/ KeyArrow \/ KeyHome \/ KeyCtrlN \/ KeyCtrlP \/ KeyNothing \/ KeySave

SmallWindowSpec == SmallWindowInit /\ [][SmallWindowNext]_vars

\* ------------------------------------------------------------------------
\* Reading keys: after some time-outs the terminal delivers a byte; after
\* ESC up to SeqSize more reads return a byte or time out, after another
\* byte up to one; editorReadKey is called until no byte is left
\* ------------------------------------------------------------------------

\* char seq[3]: how many bytes of an escape sequence are read after '\x1b'.
SeqSize == 3

\* How many reads time out before the first byte arrives.
MaxIdle == 1

\* The bytes the terminal sends: those of the escape sequences, an
\* upper-case letter and digits of no sequence, a letter, a control byte
\* and the byte 127.
ReadAlphabet ==
    {Ch["ESC"], Ch["["], Ch["O"], Ch["~"], Ch["A"], Ch["B"], Ch["C"],
     Ch["D"], Ch["E"], Ch["F"], Ch["H"], Ch["0"], Ch["1"], Ch["2"], Ch["3"],
     Ch["4"], Ch["5"], Ch["6"], Ch["7"], Ch["8"], Ch["9"], Ch["a"],
     CTRL_KEY("q"), BACKSPACE}

\* One read: a byte of the alphabet, or a time-out.
Reads == {<<b>> : b \in ReadAlphabet} \cup {<<>>}

ReadInit ==
    /\ InitRun([rows |-> 4, cols |-> 3, file |-> NULL, bytes |-> <<>>,
                keys |-> {}, edits |-> 0])
    /\ \E i \in 0..MaxIdle, b \in ReadAlphabet :
           \E n \in 0..(IF b = Ch["ESC"] THEN SeqSize ELSE 1) :
               \E t \in [1..n -> Reads] :
                   stdin = [k \in 1..i |-> <<>>] \o <<<<b>>>> \o t
    /\ keyRead = 0
    /\ consumed = <<>>

\* int c = editorReadKey(), called while a byte is to come.
ReadKey ==
    /\ \E i \in 1..Len(stdin) : stdin[i] # <<>>
    /\ keyRead' = editorReadKey(stdin).c
    /\ stdin' = editorReadKey(stdin).stdin
    /\ consumed' = SubSeq(stdin, 1, Len(stdin) - Len(stdin'))
    /\ UNCHANGED <<E, quit_times, findVars, promptVars, sessionVars, keys,
                   edits, saved, touched, quitRun, typed, disk, input,
                   restarted, called>>

ReadNext == ReadKey

ReadSpec == ReadInit /\ [][ReadNext]_vars

\* ------------------------------------------------------------------------
\* Row operations called on their own: each of the four functions that take
\* an index is called with indexes in range and out of range
\* ------------------------------------------------------------------------

\* How many rows, and how many chars in a row, a call may bring about.
MaxRows == 3
MaxSize == 3

\* The index arguments: every index in range for n items, one below and
\* two above.
Indexes(n) == -1..(n + 1)

RowInit ==
    /\ NoReads
    /\ InitRun([rows |-> 4, cols |-> 3, file |-> Bytes(<<"a", ".", "c">>),
                bytes |-> Bytes(<<"/", "*", "\n", "\t", "1", "\n">>),
                keys |-> {}, edits |-> MaxEdits])

\* One call op(.., i, ..) on row k turns E into e.
RowCall(op, i, k, e) ==
    /\ edits > 0
    /\ edits' = edits - 1
    /\ E' = e
    /\ called' = [op |-> op, i |-> i, k |-> k, E |-> E]
    /\ touched' = (touched \/ Chars(e) # Chars(E))
    /\ UNCHANGED <<quit_times, findVars, promptVars, sessionVars, keys,
                   readVars, saved, quitRun, typed, disk, input, restarted>>

CallInsertRow ==
    \E i \in Indexes(E.numrows), s \in {<<>>, Bytes(<<"*", "/">>)} :
        /\ E.numrows < MaxRows
        /\ RowCall("editorInsertRow", i, 0, editorInsertRow(E, i, s))

CallDeleteRow ==
    \E i \in Indexes(E.numrows) :
        RowCall("editorDeleteRow", i, 0, editorDeleteRow(E, i))

CallRowInsertChar ==
    \E k \in 0..(E.numrows - 1) :
        \E i \in Indexes(Len(E.row[k + 1].chars)), c \in {Ch["\t"], Ch["/"]} :
            /\ Len(E.row[k + 1].chars) < MaxSize
            /\ RowCall("editorRowInsertChar", i, k,
                       editorRowInsertChar(E, k, i, c))

CallRowDeleteChar ==
    \E k \in 0..(E.numrows - 1) :
        \E i \in Indexes(Len(E.row[k + 1].chars)) :
            RowCall("editorRowDeleteChar", i, k, editorRowDeleteChar(E, k, i))

RowNext ==
    CallInsertRow \/ CallDeleteRow \/ CallRowInsertChar \/ CallRowDeleteChar

RowSpec == RowInit /\ [][RowNext]_vars

\* The conversions between char index and render index called on their
\* own, on every row of up to MaxSize tabs and letters.
\* One call op(&E.row[k], i) of a conversion leaves e: the result is kept
\* where the program keeps it, in E.rx or in E.cx.
ColumnCall(op, i, k, e) ==
    /\ E' = e
    /\ called' = [op |-> op, i |-> i, k |-> k, E |-> E]
    /\ UNCHANGED <<quit_times, findVars, promptVars, sessionVars, keys,
                   readVars, edits, saved, touched, quitRun, typed, disk,
                   input, restarted>>

\* E.rx = editorRowCxToRx(&E.row[k], cx)
CallRowCxToRx ==
    \E k \in 0..(E.numrows - 1) :
        \E cx \in 0..Len(E.row[k + 1].chars) :
            ColumnCall("editorRowCxToRx", cx, k,
                       [E EXCEPT !.rx = editorRowCxToRx(E.row[k + 1], cx)])

\* E.cx = editorRowRxToCx(&E.row[k], rx)
CallRowRxToCx ==
    \E k \in 0..(E.numrows - 1) :
        \E rx \in 0..Len(E.row[k + 1].render) :
            ColumnCall("editorRowRxToCx", rx, k,
                       [E EXCEPT !.cx = editorRowRxToCx(E.row[k + 1], rx)])

ColumnInit ==
    /\ NoReads
    /\ \E n \in 0..MaxSize :
           \E chars \in [1..n -> {Ch["\t"], Ch["a"]}] :
               InitRun([rows |-> 4, cols |-> 3, file |-> Bytes(<<"t">>),
                        bytes |-> chars \o Bytes(<<"\n">>),
                        keys |-> {}, edits |-> 0])

ColumnNext == CallRowCxToRx \/ CallRowRxToCx

ColumnSpec == ColumnInit /\ [][ColumnNext]_vars

\* ------------------------------------------------------------------------
\* Scrolling: the cursor walked down a document longer than the window
\* from row 0, one ARROW_DOWN a key, then back up, one ARROW_UP a key.
\* called holds the last arrow key (i), the number of ARROW_DOWN keys since
\* the cursor left row 0 (k) and the state the key was read in (E).
\* ------------------------------------------------------------------------

\* A file of n lines, line i of i % 3 letters.
Lines(n) == [i \in 1..n |-> [j \in 1..(i % 3) |-> Ch["a"]] \o <<Ch["\n"]>>]

RECURSIVE Concat(_, _)
\* The bytes of the lines from line i on.
Concat(lines, i) ==
    IF i > Len(lines) THEN <<>> ELSE lines[i] \o Concat(lines, i + 1)

\* Files of 3 to 5 rows in windows of 1 and 2 rows, a file of 30 rows in a
\* window of 8, and no file in a window of 20 rows, where Enter is typed
\* up to 100 times before the cursor is moved.
ScrollInit ==
    /\ NoReads
    /\ \/ \E doc \in {[n |-> 30, rows |-> 10]} \cup [n : 3..5, rows : 3..4] :
              InitRun([rows |-> doc.rows, cols |-> 3, file |-> Bytes(<<"t">>),
                       bytes |-> Concat(Lines(doc.n), 1),
                       keys |-> {ARROW_DOWN, ARROW_UP}, edits |-> 0])
       \/ InitRun([rows |-> 22, cols |-> 3, file |-> NULL, bytes |-> <<>>,
                   keys |-> {ARROW_DOWN, ARROW_UP, Ch["\r"]}, edits |-> 100])

\* case '\r', before the first arrow key.
TypeEnter == called.op = "" /\ KeyEnter

\* case ARROW_UP, ARROW_DOWN of editorProcessKeypress and the frame after.
ScrollMove(c, downs) ==
    /\ pc = "main" /\ c \in keys
    /\ E' = editorRefreshScreen(editorMoveCursor(E, c))
    /\ quit_times' = 3
    /\ called' = [op |-> "editorMoveCursor", i |-> c, k |-> downs, E |-> E]
    /\ UNCHANGED <<findVars, promptVars, sessionVars, keys, readVars, edits,
                   saved, touched, quitRun, typed, disk, input, restarted>>

\* ARROW_DOWN from row 0, and after an ARROW_DOWN until the key after the
\* one that reaches E.numrows.
MoveDown ==
    \/ E.cy = 0 /\ ScrollMove(ARROW_DOWN, 1)
    \/ /\ E.cy > 0 /\ called.i = ARROW_DOWN /\ called.k <= E.numrows
       /\ ScrollMove(ARROW_DOWN, called.k + 1)

\* ARROW_UP.
MoveUp == ScrollMove(ARROW_UP, called.k)

ScrollNext == TypeEnter \/ MoveDown \/ MoveUp

ScrollSpec == ScrollInit /\ [][ScrollNext]_vars

\* ------------------------------------------------------------------------
\* Properties
\* ------------------------------------------------------------------------

RECURSIVE Rehighlight(_, _, _, _)
\* The whole document highlighted afresh from row k downward: the
\* highlight array and in_comment of every row, each row seeded with the
\* in_comment of the row before it (seed for row k).
Rehighlight(syn, rows, k, seed) ==
    IF k >= Len(rows) THEN <<>>
    ELSE LET s == SyntaxLoop(syn, rows[k + 1].render,
                             SyntaxLocals(rows[k + 1].render, seed))
         IN  <<[highlight |-> s.highlight, in_comment |-> s.in_comment]>>
             \o Rehighlight(syn, rows, k + 1, s.in_comment)

\* Every row's highlight array and open-comment flag are those of the
\* document highlighted afresh from row 0.
HighlightFresh(e) ==
    LET fresh == Rehighlight(HLDB[e.syntax], e.row, 0, FALSE)
    IN  \A k \in 1..e.numrows :
            /\ e.row[k].highlight = fresh[k].highlight
            /\ e.row[k].hl_open_comment = fresh[k].in_comment

\* C1: with the C profile active, after any sequence of edit key events,
\* every row's highlight array and open-comment flag equal those obtained
\* by re-highlighting the whole document from row 0 downward.
C1_HighlightAlwaysFresh ==
    (pc = "main" /\ E.syntax # 0) => HighlightFresh(E)

RECURSIVE BlockLex(_, _, _, _)
\* A row read left to right from the 0-based offset i, by the lexical rules
\* of C comments and strings: mode is 1 inside a block comment, the quote
\* byte inside a string, 0 otherwise; mask marks the bytes from an opening
\* marker through its closing marker. The result holds the mask and
\* whether the row ends inside a block comment.
BlockLex(render, i, mode, mask) ==
    IF i >= Len(render) THEN [mask |-> mask, open |-> (mode = 1)]
    ELSE IF mode = 1
    THEN IF strncmpEq(render, i, <<Ch["*"], Ch["/"]>>)
         THEN BlockLex(render, i + 2, 0, memset(mask, i, TRUE, 2))
         ELSE BlockLex(render, i + 1, 1, memset(mask, i, TRUE, 1))
    ELSE IF mode # 0
    THEN IF render[i + 1] = Ch["\\"] /\ i + 1 < Len(render)
         THEN BlockLex(render, i + 2, mode, mask)
         ELSE BlockLex(render, i + 1, IF render[i + 1] = mode THEN 0 ELSE mode, mask)
    ELSE IF strncmpEq(render, i, <<Ch["/"], Ch["/"]>>)
    THEN [mask |-> mask, open |-> FALSE]
    ELSE IF strncmpEq(render, i, <<Ch["/"], Ch["*"]>>)
    THEN BlockLex(render, i + 2, 1, memset(mask, i, TRUE, 2))
    ELSE BlockLex(render, i + 1,
                  IF render[i + 1] \in {Ch["\""], Ch["'"]} THEN render[i + 1] ELSE 0,
                  mask)

RECURSIVE BlockComments(_, _, _)
RECURSIVE BlockCommentsFrom(_, _, _)
\* The block comments of the rows from row k downward, a comment left open
\* by a row continuing on the next (open: rows before k left one open).
BlockComments(rows, k, open) ==
    IF k >= Len(rows) THEN <<>>
    ELSE BlockCommentsFrom(rows, k,
            BlockLex(rows[k + 1].render, 0, IF open THEN 1 ELSE 0,
                     [j \in 1..Len(rows[k + 1].render) |-> FALSE]))

BlockCommentsFrom(rows, k, lexed) ==
    <<lexed>> \o BlockComments(rows, k + 1, lexed.open)

\* Every row's open-comment flag and block-comment classification are
\* those of ref.
CommentsAgree(rows, ref) ==
    \A k \in 1..Len(rows) :
        /\ rows[k].hl_open_comment = ref[k].open
        /\ \A j \in 1..Len(rows[k].render) :
               (rows[k].highlight[j] = HL_MLCOMMENT) = ref[k].mask[j]

\* The rows "/* start", "middle", "end */ code".
ExampleRows ==
    <<Bytes(<<"/", "*", " ", "s", "t", "a", "r", "t">>),
      Bytes(<<"m", "i", "d", "d", "l", "e">>),
      Bytes(<<"e", "n", "d", " ", "*", "/", " ", "c", "o", "d", "e">>)>>

\* C2: after loading a document with the C profile, a row's open-comment
\* flag is true exactly when the row ends inside a block comment opened on
\* that or an earlier row and not yet closed, and exactly the render bytes
\* from the opening marker through the closing marker are classified
\* block-comment; for the rows "/* start", "middle", "end */ code" rows 0
\* and 1 end with the flag true, row 2 has it false and only "end */" of
\* it is classified as comment.
C2_OpenCommentAfterLoad ==
    E.syntax # 0 =>
        /\ CommentsAgree(E.row, BlockComments(E.row, 0, FALSE))
        /\ Chars(E) = ExampleRows =>
              /\ E.row[1].hl_open_comment /\ E.row[2].hl_open_comment
              /\ ~E.row[3].hl_open_comment
              /\ {j \in 1..11 : E.row[3].highlight[j] = HL_MLCOMMENT} = 1..6
              /\ \A k \in 1..2 : \A j \in 1..Len(E.row[k].render) :
                     E.row[k].highlight[j] = HL_MLCOMMENT

\* The example rows are loaded under the C profile.
C2_ExampleLoaded ==
    /\ E.syntax # 0 /\ ~E.dirty
    /\ Chars(E) = ExampleRows

\* C3: after every processed key event the cursor row is between 0 and
\* the number of rows, and the cursor column is between 0 and the size of
\* the cursor's row (0 on the virtual row past the end).
C3_CursorInRange ==
    /\ 0 <= E.cy /\ E.cy <= E.numrows
    /\ 0 <= E.cx /\ E.cx <= CursorRowSize(E)

\* The render column p advanced by the byte c: a tab reaches the next
\* multiple of the tab stop, any other byte takes one column.
TabAdvance(p, c) == IF c = Ch["\t"] THEN (p \div TAB_STOP + 1) * TAB_STOP ELSE p + 1

RECURSIVE RenderColumn(_, _)
\* The render column of the first n bytes of chars.
RenderColumn(chars, n) ==
    IF n = 0 THEN 0 ELSE TabAdvance(RenderColumn(chars, n - 1), chars[n])

\* C4: after the scroll step, on a window of at least one text row and one
\* column, the render x is that of the cursor's row and column, the
\* cursor row lies in the rowoffset window of screenrows rows and the
\* render x in the coloffset window of screencols columns, whatever edit,
\* move or search step came before.
C4_CursorVisibleAfterScroll ==
    (E.screenrows >= 1 /\ E.screencols >= 1) =>
        /\ E.rx = (IF E.cy < E.numrows
                   THEN RenderColumn(E.row[E.cy + 1].chars, E.cx) ELSE 0)
        /\ E.rowoffset <= E.cy /\ E.cy < E.rowoffset + E.screenrows
        /\ E.coloffset <= E.rx /\ E.rx < E.coloffset + E.screencols

\* After an edit the window has been scrolled down and right and back:
\* the cursor sits in its first row and first column, behind a tab.
C4_ScrolledBack ==
    /\ E.dirty
    /\ E.rowoffset > 0 /\ E.cy = E.rowoffset
    /\ E.coloffset > 0 /\ E.rx = E.coloffset /\ E.rx > E.cx

\* C5: whenever the rows' characters differ from what they were at the
\* last load or successful save, dirty is true.
C5_ChangedImpliesDirty == (Chars(E) # saved) => E.dirty

\* The document was saved and edited since: it differs from what was
\* written.
C5_EditedAfterSave ==
    /\ E.statusmsg.fmt = MsgWritten
    /\ Chars(E) # saved

\* C6 as stated: dirty is true if and only if the rows' characters differ
\* from what they were at the last load or successful save.
C6_DirtyIffDiffers == E.dirty <=> (Chars(E) # saved)

\* C6: dirty is true if and only if some key event since the last load or
\* successful save changed the rows' characters, whether or not a later
\* one changed them back.
C6_DirtyIffTouched == E.dirty <=> touched

\* The document was changed and changed back: it is what was loaded or
\* saved, and dirty.
C6_ChangedBack ==
    /\ touched /\ E.dirty
    /\ Chars(E) = saved /\ E.numrows > 0

\* C7: while dirty, the program exits at the fourth quit key in a row,
\* after three warnings that count down from 3; any other key handled in
\* between sets the count back to 3; when not dirty, the first quit key
\* exits.
C7_QuitNeedsFourInARow ==
    /\ pc = "exit" => quitRun = (IF E.dirty THEN 4 ELSE 1)
    /\ pc = "main" => quit_times = 3 - quitRun
    /\ (pc = "main" /\ quitRun > 0) =>
          /\ E.dirty
          /\ E.statusmsg = [fmt |-> MsgWarning, n |-> 4 - quitRun]

\* The program has exited with unsaved changes.
C7_ExitedDirty == pc = "exit" /\ E.dirty /\ quitRun = 4

RECURSIVE CrlfToLf(_, _)
\* The bytes from the k-th on with every CR LF pair replaced by LF.
CrlfToLf(bytes, k) ==
    IF k > Len(bytes) THEN <<>>
    ELSE IF bytes[k] = Ch["\r"] /\ k < Len(bytes) /\ bytes[k + 1] = Ch["\n"]
    THEN <<Ch["\n"]>> \o CrlfToLf(bytes, k + 2)
    ELSE <<bytes[k]>> \o CrlfToLf(bytes, k + 1)

RECURSIVE LineEndsNormalized(_, _, _)
\* The bytes from the k-th on, read with cr carriage returns held back:
\* the carriage returns right before a line feed or the end of the input
\* are dropped, the others kept, and a line feed is added when the input
\* does not end with one.
LineEndsNormalized(bytes, k, cr) ==
    IF k > Len(bytes)
    THEN (IF Len(bytes) > 0 /\ bytes[Len(bytes)] # Ch["\n"] THEN <<Ch["\n"]>> ELSE <<>>)
    ELSE IF bytes[k] = Ch["\r"] THEN LineEndsNormalized(bytes, k + 1, cr + 1)
    ELSE IF bytes[k] = Ch["\n"] THEN <<Ch["\n"]>> \o LineEndsNormalized(bytes, k + 1, 0)
    ELSE [j \in 1..cr |-> Ch["\r"]] \o <<bytes[k]>> \o LineEndsNormalized(bytes, k + 1, 0)

\* The program, started once, has just written the file it loaded.
LoadedAndWritten == ~restarted /\ ~touched /\ E.statusmsg.fmt = MsgWritten

\* C8 as stated: loading bytes and then serializing yields exactly the
\* input bytes with each CRLF line ending replaced by LF and nothing else
\* changed.
C8_SaveIsInputCrlfToLf == LoadedAndWritten => disk = CrlfToLf(input, 1)

\* C8: loading bytes and then serializing yields the input with every run
\* of carriage returns that directly precedes a line feed or the end of
\* the input removed, and with a line feed added after a last line that
\* does not end with one; nothing else changes.
C8_SaveNormalizesLineEnds == LoadedAndWritten => disk = LineEndsNormalized(input, 1, 0)

\* A file of two lines or more that holds a carriage return was loaded
\* and written.
C8_WrittenFromCrInput ==
    /\ LoadedAndWritten
    /\ E.numrows >= 2
    /\ \E k \in 1..Len(input) : input[k] = Ch["\r"]

\* C9: loading bytes, serializing and loading again gives the same
\* sequence of row contents as the first load: when the program is
\* started again on the file it has just written from the rows it had
\* loaded, its rows are those it had.
C9_ReloadGivesSameRows ==
    [][(Restart /\ ~touched /\ E.statusmsg.fmt = MsgWritten)
          => Chars(E') = Chars(E)]_vars

\* The program was started again on a file it had written, of two rows
\* or more, that differs from the file it had first loaded.
C9_Reloaded ==
    /\ restarted /\ pc = "main" /\ ~E.dirty
    /\ E.numrows >= 2
    /\ disk = editorRowsToString(E) /\ disk # input

\* The rows, the cursor and the row count are those from before the
\* character was typed, and dirty is true.
TypedUndone ==
    /\ Chars(E) = typed.chars
    /\ E.cx = typed.cx /\ E.cy = typed.cy
    /\ E.numrows = typed.numrows
    /\ E.dirty

\* C10 as stated: inserting one character at the cursor and then pressing
\* Backspace restores the row's characters and the cursor position, leaves
\* the row count unchanged and leaves dirty true.
C10_InsertThenBackspace == typed.stage = 2 => TypedUndone

\* C10: inserting one character at the cursor and then pressing Backspace
\* leaves dirty true and restores the cursor position; with the cursor on
\* a row of the document it restores the row's characters and the row
\* count, and with the cursor on the virtual row past the last row it
\* leaves the document one empty row longer.
C10_InsertThenBackspaceOnRow ==
    typed.stage = 2 =>
        IF typed.cy < typed.numrows THEN TypedUndone
        ELSE /\ Chars(E) = Append(typed.chars, <<>>)
             /\ E.cx = typed.cx /\ E.cy = typed.cy
             /\ E.numrows = typed.numrows + 1
             /\ E.dirty

\* A character was typed inside a row of the document, not at its start,
\* and Backspace pressed.
C10_TypedInsideRow ==
    /\ typed.stage = 2
    /\ typed.cy < typed.numrows
    /\ typed.cx > 0 /\ typed.cx < Len(typed.chars[typed.cy + 1])

\* C11: on a row of the document, at any column from 0 to the row's size,
\* pressing Enter and then Backspace restores the sequence of row
\* contents, the row count and the cursor, and leaves dirty true.
C11_EnterThenBackspace ==
    (typed.stage = 4 /\ typed.cy < typed.numrows) => TypedUndone

\* In a clean document Enter was pressed inside a row, not at its start
\* or end, and then Backspace.
C11_SplitInsideRow ==
    /\ typed.stage = 4 /\ typed.chars = saved
    /\ typed.cy < typed.numrows
    /\ typed.cx > 0 /\ typed.cx < Len(typed.chars[typed.cy + 1])

\* A forward step of a search: ArrowRight or ArrowDown is read in the
\* prompt of editorFind.
ForwardStep ==
    /\ pc = "find"
    /\ \E c \in keys \cap {ARROW_RIGHT, ARROW_DOWN} :
           PromptLoop(Callback(buf, c), buf)

\* Row r of e contains query in its rendered text.
RowContains(e, r, query) ==
    \E k \in 0..(Len(e.row[r + 1].render) - Len(query)) :
        \A j \in 1..Len(query) : e.row[r + 1].render[k + j] = query[j]

\* The first row after row from, going round from the last row to row 0,
\* that contains query; row from itself comes last.
NextRowContaining(e, query, from) ==
    LET k == CHOOSE k \in 1..e.numrows :
                 /\ RowContains(e, (from + k) % e.numrows, query)
                 /\ \A m \in 1..(k - 1) :
                        ~RowContains(e, (from + m) % e.numrows, query)
    IN  (from + k) % e.numrows

\* C12: in a search with a query typed and a row matched, a forward step
\* moves the match, and the cursor with it, to the next row after the
\* last matched row that contains the query, going round from the last
\* row to row 0.
C12_ForwardStepNextRow ==
    [][(ForwardStep /\ buf # <<>> /\ last_match # -1) =>
          /\ last_match' = NextRowContaining(E, buf, last_match)
          /\ E'.cy = last_match']_vars

\* On the rows "foo", "bar", "foo" the query "foo" was typed and matched
\* row 0, and two forward steps matched row 2 and then row 0.
C12_FooBarFoo ==
    /\ Chars(E) = <<Bytes(<<"f", "o", "o">>), Bytes(<<"b", "a", "r">>),
                    Bytes(<<"f", "o", "o">>)>>
    /\ pc = "find" /\ buf = Bytes(<<"f", "o", "o">>)
    /\ found = << <<0, 1>>, <<2, 1>>, <<0, 1>> >>
    /\ last_match = 0 /\ E.cy = 0

\* The cursor and the scroll offsets of e.
CursorAndScroll(e) == <<e.cx, e.cy, e.rowoffset, e.coloffset>>

\* The rendered text of the cursor's row holds query at the cursor.
CursorAtMatch(e, query) ==
    /\ e.cy < e.numrows
    /\ e.rx + Len(query) <= Len(e.row[e.cy + 1].render)
    /\ \A j \in 1..Len(query) : e.row[e.cy + 1].render[e.rx + j] = query[j]

\* C13: Escape in the search prompt leaves cx, cy, rowoffset and coloffset
\* as they were when the search was started, whatever was typed since;
\* Enter leaves the cursor where it is, which is on the last matched row
\* at the match when a row was matched.
C13_EscapeRestoresEnterKeeps ==
    [][/\ FindEscape => CursorAndScroll(E') = CursorAndScroll(started)
       /\ FindEnter =>
              /\ E'.cx = E.cx /\ E'.cy = E.cy
              /\ last_match # -1 =>
                     (E'.cy = last_match /\ CursorAtMatch(E', buf))]_vars

\* A search started at cx = 3, cy = 1 matched a row and was ended with the
\* cursor and the window back where they were.
C13_BackAtThreeOne ==
    /\ pc = "main" /\ found # <<>>
    /\ started.cx = 3 /\ started.cy = 1
    /\ found[Len(found)][1] # 1
    /\ CursorAndScroll(E) = CursorAndScroll(started)

\* The highlight of every row, in row order.
Highlights(e) == [i \in 1..e.numrows |-> e.row[i].highlight]

\* Some cell of some row of e is classified HL_MATCH.
HasMatchCell(e) ==
    \E i \in 1..e.numrows :
        \E j \in 1..Len(e.row[i].highlight) : e.row[i].highlight[j] = HL_MATCH

\* What a search leaves alone: the rows' chars, numrows, dirty, filename.
SearchFrame(e) == <<Chars(e), e.numrows, e.dirty, e.filename>>

\* C14: when a search ends, by Enter or by Escape, every row's highlight is
\* what it was when the search was started and no cell is classified
\* HL_MATCH; during the search and at its end the rows' chars, numrows,
\* dirty and filename are what they were when it was started.
C14_SearchLeavesNoTrace ==
    /\ [](pc = "find" => SearchFrame(E) = SearchFrame(started))
    /\ [][(FindEscape \/ FindEnter) =>
              /\ Highlights(E') = Highlights(started)
              /\ ~HasMatchCell(E')
              /\ SearchFrame(E') = SearchFrame(started)]_vars

\* A search in a C file has ended; its last match was in a row whose
\* cells are not all HL_NORMAL, and the highlights are those of before.
C14_EndedOnHighlightedRow ==
    /\ pc = "main" /\ found # <<>> /\ E.syntax # 0
    /\ E.statusmsg.fmt = ""
    /\ \E j \in 1..Len(E.row[found[Len(found)][1] + 1].highlight) :
           E.row[found[Len(found)][1] + 1].highlight[j] # HL_NORMAL
    /\ Highlights(E) = Highlights(started)

\* buf of editorPrompt when the callback is called after key c was read
\* with buffer b.
PromptBuffer(b, c) ==
    IF c \in {DEL, BACKSPACE}
    THEN (IF Len(b) # 0 THEN SubSeq(b, 1, Len(b) - 1) ELSE b)
    ELSE IF c # Ch["ESC"] /\ c # Ch["\r"] /\ ~iscntrl(c) /\ c < 128
    THEN Append(b, c) ELSE b

\* No row of e contains query in its rendered text.
NoRowContains(e, query) == \A r \in 0..(e.numrows - 1) : ~RowContains(e, r, query)

\* The editor state and the statics of editorFindCallback as they are.
BeforeCallback ==
    [E |-> E, last_match |-> last_match, direction |-> direction,
     saved_highlight_line |-> saved_highlight_line,
     saved_highlight |-> saved_highlight]

\* The callback turned before into after without moving the cursor or the
\* window and without a new overlay: the rows are those of before with the
\* saved highlight copied back, and no highlight is saved.
Unmoved(before, after) ==
    /\ CursorAndScroll(after.E) = CursorAndScroll(before.E)
    /\ after.E.row = FindRestore(before).E.row
    /\ after.saved_highlight = NULL

\* C15 as stated: a callback invocation whose query no row contains leaves
\* cx, cy, the scroll offsets and the last matched row as they were, and
\* the overlay as the restore of the previous one left it.
C15_NoMatchLeavesLastMatch ==
    pc = "find" =>
        \A c \in keys :
            NoRowContains(E, PromptBuffer(buf, c)) =>
                /\ Unmoved(BeforeCallback, Callback(PromptBuffer(buf, c), c))
                /\ Callback(PromptBuffer(buf, c), c).last_match = last_match

\* C15: a callback invocation whose query no row contains leaves cx, cy
\* and the scroll offsets as they were and the overlay as the restore of
\* the previous one left it; the last matched row is as it was when the
\* key is an arrow key, and is none (-1) after any other key.
C15_NoMatchLeavesCursor ==
    pc = "find" =>
        \A c \in keys :
            NoRowContains(E, PromptBuffer(buf, c)) =>
                /\ Unmoved(BeforeCallback, Callback(PromptBuffer(buf, c), c))
                /\ Callback(PromptBuffer(buf, c), c).last_match =
                       (IF c \in MoveKeys THEN last_match ELSE -1)

\* A query that matched was extended to one that no row contains: the
\* cursor is still on the row of the last match, away from where the
\* search was started, and there is no last matched row.
C15_ExtendedToNoMatch ==
    /\ pc = "find" /\ found # <<>>
    /\ NoRowContains(E, buf)
    /\ last_match = -1 /\ saved_highlight = NULL
    /\ E.cy = found[Len(found)][1] /\ E.cy # started.cy

\* A save fails: editorSave, called with a file name or having read one,
\* ends with open, ftruncate or write failing.
SaveFails ==
    \E outcome \in SaveOutcomes \ {"written"} :
        KeySaveOutcome(outcome) \/ SaveEnterOutcome(outcome)

\* What a failed save leaves alone: the rows' chars, their number, the
\* cursor and dirty.
SaveFrame(e) == <<Chars(e), e.numrows, e.cx, e.cy, e.dirty>>

KeySequences ==
    {[bytes |-> <<Ch["ESC"], Ch["["], Ch[d], Ch["~"]>>, code |-> HOME] :
        d \in {"1", "7"}} \cup
    {[bytes |-> <<Ch["ESC"], Ch["["], Ch[d], Ch["~"]>>, code |-> END] :
        d \in {"4", "8"}} \cup
    {[bytes |-> <<Ch["ESC"], Ch["["], Ch["3"], Ch["~"]>>, code |-> DEL],
     [bytes |-> <<Ch["ESC"], Ch["["], Ch["5"], Ch["~"]>>, code |-> PAGE_UP],
     [bytes |-> <<Ch["ESC"], Ch["["], Ch["6"], Ch["~"]>>, code |-> PAGE_DOWN],
     [bytes |-> <<Ch["ESC"], Ch["["], Ch["A"]>>, code |-> ARROW_UP],
     [bytes |-> <<Ch["ESC"], Ch["["], Ch["B"]>>, code |-> ARROW_DOWN],
     [bytes |-> <<Ch["ESC"], Ch["["], Ch["C"]>>, code |-> ARROW_RIGHT],
     [bytes |-> <<Ch["ESC"], Ch["["], Ch["D"]>>, code |-> ARROW_LEFT],
     [bytes |-> <<Ch["ESC"], Ch["["], Ch["H"]>>, code |-> HOME],
     [bytes |-> <<Ch["ESC"], Ch["["], Ch["F"]>>, code |-> END],
     [bytes |-> <<Ch["ESC"], Ch["O"], Ch["H"]>>, code |-> HOME],
     [bytes |-> <<Ch["ESC"], Ch["O"], Ch["F"]>>, code |-> END]}

\* The reads s with the time-outs before the first byte left out.
FirstByteOn(s) ==
    LET i == CHOOSE i \in 1..Len(s) :
                 s[i] # <<>> /\ \A k \in 1..(i - 1) : s[k] = <<>>
    IN  SubSeq(s, i, Len(s))

\* The reads s begin with the bytes b, one byte a read.
BeginsWith(s, b) ==
    /\ Len(s) >= Len(b)
    /\ \A k \in 1..Len(b) : s[k] = <<b[k]>>

\* Called on the reads s, the first of them a byte, editorReadKey returned
\* c and left the reads left: c is the key of the escape sequence s begins
\* with and left what follows the sequence; a first byte other than ESC is
\* c itself and left what follows it.
Decodes(s, c, left) ==
    /\ \A r \in KeySequences :
           BeginsWith(s, r.bytes) =>
               (c = r.code /\ left = SubSeq(s, Len(r.bytes) + 1, Len(s)))
    /\ s[1] # <<Ch["ESC"]>> => (<<c>> = s[1] /\ left = Tail(s))

\* C17: editorReadKey returns the key of an escape sequence when the bytes
\* that arrive are that sequence (ESC [ d ~ for Home, End, Del, Page Up,
\* Page Down; ESC [ and a letter for the arrows, Home and End; ESC O H and
\* ESC O F) and has read just these bytes; a first byte other than ESC is
\* returned as it is, and alone.
C17_DecodesKeySequences ==
    [][ReadKey => Decodes(FirstByteOn(stdin), keyRead', stdin')]_vars

\* After a read that timed out, ESC [ 8 ~ was read and END returned.
C17_ReadEndAfterIdle ==
    /\ consumed = <<<<>>, <<Ch["ESC"]>>, <<Ch["["]>>, <<Ch["8"]>>, <<Ch["~"]>>>>
    /\ keyRead = END

\* The reads s begin with the byte ESC and with no escape sequence.
NoKeySequence(s) ==
    /\ s[1] = <<Ch["ESC"]>>
    /\ \A r \in KeySequences : ~BeginsWith(s, r.bytes)

\* C18: when the first byte is ESC and what arrives is no escape sequence
\* (a read times out after ESC or after one or two more bytes, ESC [ and a
\* digit are followed by a byte other than '~', the digit before '~' is 0,
\* 2 or 9, the letter is not one of a sequence, another byte follows ESC),
\* editorReadKey returns ESC.
C18_OtherwiseEscape ==
    [][(ReadKey /\ NoKeySequence(FirstByteOn(stdin))) =>
          keyRead' = Ch["ESC"]]_vars

\* ESC [ 9 ~ was read and ESC returned.
C18_ReadNineTilde ==
    /\ consumed = <<<<Ch["ESC"]>>, <<Ch["["]>>, <<Ch["9"]>>, <<Ch["~"]>>>>
    /\ keyRead = Ch["ESC"]

\* The index of the last call is out of range for n items, the largest
\* index in range being n - 1 + slack.
OutOfRange(n, slack) == called.i < 0 \/ called.i > n - 1 + slack

\* C19: editorInsertRow with i < 0 or i > numrows, editorDeleteRow with
\* i < 0 or i >= numrows and editorRowDeleteChar with i < 0 or
\* i >= row->size leave E as it was: rows, numrows, the rows' idx and dirty;
\* editorRowInsertChar with i < 0 or i > row->size puts the char at the end
\* of the row.  Every call returns.
C19_OutOfRangeIndexes ==
    /\ (called.op = "editorInsertRow" /\ OutOfRange(called.E.numrows, 1))
           => E = called.E
    /\ (called.op = "editorDeleteRow" /\ OutOfRange(called.E.numrows, 0))
           => E = called.E
    /\ (called.op = "editorRowDeleteChar"
           /\ OutOfRange(Len(called.E.row[called.k + 1].chars), 0))
           => E = called.E
    /\ (called.op = "editorRowInsertChar"
           /\ OutOfRange(Len(called.E.row[called.k + 1].chars), 1))
           => /\ SubSeq(E.row[called.k + 1].chars, 1,
                        Len(called.E.row[called.k + 1].chars))
                     = called.E.row[called.k + 1].chars
              /\ Len(E.row[called.k + 1].chars)
                     = Len(called.E.row[called.k + 1].chars) + 1
              /\ \A j \in 1..E.numrows :
                     j # called.k + 1 => E.row[j].chars = called.E.row[j].chars
              /\ E.numrows = called.E.numrows

\* editorDeleteRow was called with i = numrows on a clean document of two
\* rows.
C19_DeleteRowAtNumrows ==
    /\ called.op = "editorDeleteRow"
    /\ called.i = called.E.numrows /\ called.E.numrows = 2
    /\ ~called.E.dirty

\* C20: whatever rows were inserted and deleted, by loading a file, by
\* Enter, by a Backspace or Delete that joins two rows or by typing on the
\* virtual row, the idx of the row at position j is j, for every j from 0
\* to numrows - 1.
C20_IdxIsPosition ==
    /\ Len(E.row) = E.numrows
    /\ \A j \in 0..(E.numrows - 1) : E.row[j + 1].idx = j

\* Enter was pressed in a row with rows after it and Backspace joined the
\* two rows again: the rows after were renumbered twice.
C20_SplitAndJoinedAboveRows ==
    /\ typed.stage = 4
    /\ typed.cy + 1 < typed.numrows
    /\ E.numrows = typed.numrows

\* The char of chars whose columns hold render column j (from 1).
CharAtColumn(chars, j) ==
    CHOOSE i \in 1..Len(chars) :
        RenderColumn(chars, i - 1) < j /\ j <= RenderColumn(chars, i)

\* chars with every tab replaced by spaces up to the next multiple of
\* TAB_STOP columns.
TabsExpanded(chars) ==
    [j \in 1..RenderColumn(chars, Len(chars)) |->
        IF chars[CharAtColumn(chars, j)] = Ch["\t"] THEN Ch[" "]
        ELSE chars[CharAtColumn(chars, j)]]

\* C21: whenever a frame has been drawn and a key, or a search scan, comes
\* next, the render of every row is its chars with the tabs expanded to
\* the next multiple of 8 columns, and its highlight has as many entries
\* as its render has bytes (rsize).
C21_RenderFollowsChars ==
    \A i \in 1..E.numrows :
        /\ E.row[i].render = TabsExpanded(E.row[i].chars)
        /\ Len(E.row[i].highlight) = Len(E.row[i].render)

\* Two rows were joined by Backspace or Delete into a row that holds a
\* tab before other chars.
C21_JoinedRowWithTab ==
    /\ E.dirty /\ E.numrows < Len(saved)
    /\ \E i \in 1..E.numrows :
           /\ E.row[i].chars \notin {saved[k] : k \in 1..Len(saved)}
           /\ \E j \in 1..(Len(E.row[i].chars) - 1) :
                  E.row[i].chars[j] = Ch["\t"]

\* The row the last call was made on.
CalledRow == E.row[called.k + 1]

\* C22: for a row with or without tabs and cx from 0 to its size,
\* editorRowRxToCx of editorRowCxToRx(cx) is cx; for a render index rx
\* from 0 to rsize - 1, editorRowRxToCx(rx) is the index cx of the char
\* whose render span holds rx: editorRowCxToRx(cx) <= rx and
\* rx < editorRowCxToRx(cx + 1).
C22_ColumnRoundTrip ==
    /\ called.op = "editorRowCxToRx" =>
           editorRowRxToCx(CalledRow, E.rx) = called.i
    /\ (called.op = "editorRowRxToCx" /\ called.i < Len(CalledRow.render)) =>
           /\ E.cx < Len(CalledRow.chars)
           /\ editorRowCxToRx(CalledRow, E.cx) <= called.i
           /\ called.i < editorRowCxToRx(CalledRow, E.cx + 1)

\* editorRowRxToCx was called with a render index inside the span of a
\* tab that follows another char.
C22_InsideTab ==
    /\ called.op = "editorRowRxToCx"
    /\ E.cx > 0 /\ E.cx < Len(CalledRow.chars)
    /\ CalledRow.chars[E.cx + 1] = Ch["\t"]
    /\ editorRowCxToRx(CalledRow, E.cx) < called.i

\* The rows of text after row cy (0-based, cy > 0) is joined onto the row above.
Joined(chars, cy) ==
    [i \in 1..(Len(chars) - 1) |->
        IF i < cy THEN chars[i]
        ELSE IF i = cy THEN chars[cy] \o chars[cy + 1]
        ELSE chars[i + 1]]

\* C23: Backspace at the start of row cy, 0 < cy < numrows, replaces row
\* cy - 1 by the old row cy - 1 followed by the old row cy, removes row cy,
\* leaves one row less, every other row's text as it was, and the cursor at
\* (old size of row cy - 1, cy - 1); Backspace at (0, 0) changes neither the
\* text, nor the cursor, nor the dirty flag.
C23_BackspaceJoinsRows ==
    [][/\ (KeyBackspace /\ E.cx = 0 /\ 0 < E.cy /\ E.cy < E.numrows) =>
            /\ E'.numrows = E.numrows - 1
            /\ Chars(E') = Joined(Chars(E), E.cy)
            /\ E'.cx = Len(E.row[E.cy].chars)
            /\ E'.cy = E.cy - 1
       /\ (KeyBackspace /\ E.cx = 0 /\ E.cy = 0) =>
            /\ Chars(E') = Chars(E)
            /\ E'.numrows = E.numrows
            /\ E'.cx = 0 /\ E'.cy = 0
            /\ E'.dirty = E.dirty]_vars

\* Two non-empty rows of the loaded file are one row, the cursor at the seam.
C23_JoinedAtSeam ==
    /\ pc = "main" /\ E.dirty /\ E.cy < E.numrows
    /\ \E k \in 1..(Len(saved) - 1) :
          /\ saved[k] # <<>> /\ saved[k + 1] # <<>>
          /\ E.cy = k - 1 /\ E.cx = Len(saved[k])
          /\ E.numrows = Len(saved) - 1
          /\ Chars(E) = Joined(saved, k)

\* C24: in a document of more rows than the window has, after r ARROW_DOWN
\* keys from row 0 the cursor is on row r and, when r >= screenrows, the
\* frame leaves rowoffset = r - screenrows + 1; ARROW_UP keys after them
\* that bring the cursor back to row 0 leave rowoffset = 0; with 100 rows
\* and 20 screen rows, row 99 gives rowoffset = 80.
C24_RowOffsetFollowsCursor ==
    (called.op = "editorMoveCursor" /\ called.k > 0
        /\ E.numrows > E.screenrows) =>
        /\ called.i = ARROW_DOWN =>
              LET r == IF called.k < E.numrows THEN called.k ELSE E.numrows
              IN  /\ E.cy = r
                  /\ r >= E.screenrows => E.rowoffset = r - E.screenrows + 1
                  /\ r < E.screenrows => E.rowoffset = 0
        /\ (called.i = ARROW_UP /\ E.cy = 0) => E.rowoffset = 0
        /\ (called.i = ARROW_DOWN /\ E.numrows = 100 /\ E.screenrows = 20
                /\ E.cy = 99) => E.rowoffset = 80

\* Back on row 0 of 100 rows after 99 ARROW_DOWN keys, the frame before
\* still one row down.
C24_DownToLastRowAndBack ==
    /\ called.op = "editorMoveCursor" /\ called.i = ARROW_UP
    /\ E.numrows = 100 /\ E.screenrows = 20
    /\ called.k = 99
    /\ called.E.cy = 1 /\ called.E.rowoffset = 1
    /\ E.cy = 0 /\ E.rowoffset = 0

\* One key read in a prompt: what ends the prompt, what each ending
\* returns, what the key does to the buffer.
PromptKey ==
    /\ pc' = "main" =>
          \/ FindEscape \/ SaveEscape
          \/ Len(buf) # 0 /\ (FindEnter \/ SaveEnter)
    /\ SaveEscape =>
          /\ E'.filename = NULL
          /\ E'.statusmsg = editorSetStatusMessage(E, MsgAborted, 0).statusmsg
          /\ disk' = disk
    /\ FindEscape => E'.cx = saved_cursor.cx /\ E'.cy = saved_cursor.cy
    /\ SaveEnter => E'.filename = buf
    /\ PromptEnterEmpty => pc' = pc /\ buf' = <<>>
    /\ PromptBackspace =>
          /\ pc' = pc
          /\ buf' = IF Len(buf) = 0 THEN <<>> ELSE SubSeq(buf, 1, Len(buf) - 1)
    /\ PromptOtherKey => pc' = pc /\ buf' = buf
    /\ (pc' = pc /\ Len(buf') > Len(buf)) =>
          /\ buf' = Append(buf, buf'[Len(buf')])
          /\ ~iscntrl(buf'[Len(buf')]) /\ buf'[Len(buf')] < 128

\* C25: a prompt ends only by Escape, which returns no value whatever the
\* buffer holds (the save is aborted and no file name set, the search is
\* cancelled and the cursor put back), or by Enter on a non-empty buffer,
\* which returns the buffer (the file name of the save); Enter on an empty
\* buffer keeps the prompt open, Backspace and Del remove the last byte of
\* the buffer and do nothing to an empty one, and the buffer grows only by
\* one key code that is no control character and below 128.
C25_PromptEndsTwoWays == [][(pc \in {"find", "save"}) => PromptKey]_vars

\* The document that had no name was saved as "c".
C25_SavedAsC ==
    /\ pc = "main" /\ input = NULL
    /\ E.filename = Bytes(<<"c">>) /\ disk # NULL

\* The step is what one call of editorFindCallback(query, c) makes of the
\* statics, the rows' highlight and, while the prompt stays open, the cursor.
CalledOnceWith(query, c) ==
    LET st == editorFindCallback(BeforeCallback, query, c)
    IN  /\ last_match' = st.last_match
        /\ direction' = st.direction
        /\ saved_highlight_line' = st.saved_highlight_line
        /\ saved_highlight' = st.saved_highlight
        /\ Highlights(E') = Highlights(st.E)
        /\ pc' = "find" => E'.cx = st.E.cx /\ E'.cy = st.E.cy

\* C26: for every key the search prompt reads, the key that ends the
\* prompt and the keys that leave the buffer alone included, the callback
\* is called exactly once, with the buffer as it is after the key and with
\* the key.
C26_CallbackOncePerKey ==
    [][(pc = "find") =>
          \E c \in keys :
              /\ pc' = "find" => buf' = PromptBuffer(buf, c)
              /\ pc' = "main" => c \in {Ch["ESC"], Ch["\r"]}
              /\ CalledOnceWith(IF pc' = "find" THEN buf' ELSE buf, c)]_vars

\* An arrow key, which leaves the buffer alone, turned the search backward
\* from a matched row.
C26_TurnedBackward ==
    /\ pc = "find" /\ buf # <<>>
    /\ direction = -1 /\ last_match >= 0 /\ Len(found) >= 2

\* One step leaves the syntax profile alone unless it is the Enter that
\* names a document without a name, which selects it from the new name
\* whether or not the writing succeeds; a name once set stays.
ProfileStep ==
    /\ E'.syntax # E.syntax => (E.filename = NULL /\ SaveEnter)
    /\ E.filename # NULL => (E'.filename = E.filename /\ E'.syntax = E.syntax)
    /\ SaveEnter =>
          E'.syntax = editorSelectSyntaxHighlight([E EXCEPT !.filename = buf]).syntax

\* C27: the syntax profile is chosen at most once in a run, from the name of
\* the file opened or from the name given at the first save of a document
\* without one, and never changes after, by later saves and failed saves
\* included: it is always the one selected from the file name, none while
\* there is no name.
C27_SyntaxChosenOnce ==
    /\ [](E.syntax = editorSelectSyntaxHighlight(E).syntax)
    /\ [][ProfileStep]_vars

\* A document named at its first save and given the C profile, written
\* once, then a save that failed.
C27_FailedSaveKeepsProfile ==
    /\ pc = "main" /\ input = NULL /\ disk # NULL
    /\ E.syntax # 0 /\ E.statusmsg.fmt = MsgCantSave

\* ------------------------------------------------------------------------
\* The loops of main and of editorPrompt with the frame and the key read
\* taken apart: pc is "main", "find" or "save" where editorReadKey is
\* called, "main_frame", "find_frame" or "save_frame" where the loop is
\* about to draw. called holds the last of the two calls (op), the number
\* of frames drawn since the last key was read (i), the last key read (k)
\* and, after a frame, the state the frame left, after a read, the state
\* the key was read in (E).
\* ------------------------------------------------------------------------

FrameInit ==
    /\ NoReads
    /\ \E run \in
          { \* no file: typing, the quit warning, the save prompt
            [rows |-> 4, cols |-> 3, file |-> NULL, bytes |-> <<>>,
             keys |-> {ARROW_RIGHT, Ch["c"], Ch["\r"], Ch["ESC"], BACKSPACE,
                       CTRL_KEY("q"), CTRL_KEY("s")},
             edits |-> 1],
            \* the rows "foo", "bar": moving, searching, saving
            [rows |-> 3, cols |-> 3, file |-> Bytes(<<"t">>),
             bytes |-> Bytes(<<"f", "o", "o", "\n", "b", "a", "r", "\n">>),
             keys |-> {ARROW_DOWN, CTRL_KEY("f"), CTRL_KEY("s"), CTRL_KEY("q"),
                       Ch["o"], Ch["\r"], Ch["ESC"]},
             edits |-> 0] } :
           InitRun(run)

\* editorRefreshScreen() draws e at the head of a loop, editorReadKey is
\* called next at pc at.
Frame(e, at) ==
    /\ E' = editorRefreshScreen(e)
    /\ pc' = at
    /\ called' = [op |-> "editorRefreshScreen", i |-> called.i + 1,
                  k |-> called.k, E |-> editorRefreshScreen(e)]
    /\ UNCHANGED <<quit_times, findVars, buf, saved_cursor, sessionVars, keys,
                   readVars, edits, saved, touched, quitRun, typed, disk,
                   input, restarted>>

\* for (;;) { editorRefreshScreen(); ... } of main
MainFrame == pc = "main_frame" /\ Frame(E, "main")

\* for (;;) { editorSetStatusMessage(prompt, buf); editorRefreshScreen(); ... }
\* of editorPrompt
PromptFrame ==
    \/ pc = "find_frame" /\ Frame(editorSetStatusMessage(E, MsgSearch, 0), "find")
    \/ pc = "save_frame" /\ Frame(editorSetStatusMessage(E, MsgSaveAs, 0), "save")

\* editorReadKey() returned c and the code ran on to the head of the loop
\* at pc at (or to exit), leaving st.
Processed(c, st, at) ==
    /\ c \in keys
    /\ E' = st.E
    /\ SetFindVars(st)
    /\ pc' = at
    /\ called' = [op |-> "editorReadKey", i |-> 0, k |-> c, E |-> E]
    /\ UNCHANGED <<sessionVars, keys, readVars, saved, touched, quitRun,
                   typed, input, restarted>>

\* case ARROW_UP, ARROW_DOWN, ARROW_LEFT, ARROW_RIGHT
ProcessArrow ==
    /\ pc = "main"
    /\ \E c \in MoveKeys :
           Processed(c, [BeforeCallback EXCEPT !.E = editorMoveCursor(E, c)], "main_frame")
    /\ quit_times' = 3
    /\ UNCHANGED <<buf, saved_cursor, edits, disk>>

\* default: editorInsertChar(c)
ProcessChar ==
    /\ pc = "main" /\ edits > 0
    /\ \E c \in DefaultKeys :
           Processed(c, [BeforeCallback EXCEPT !.E = editorInsertChar(E, c)], "main_frame")
    /\ quit_times' = 3
    /\ edits' = edits - 1
    /\ UNCHANGED <<buf, saved_cursor, disk>>

\* ProcessQuit were the warning followed by the next read at once.
ProcessQuit_SkipsFrame ==
    /\ pc = "main"
    /\ IF E.dirty /\ quit_times > 0
       THEN /\ Processed(CTRL_KEY("q"),
                         [BeforeCallback EXCEPT !.E = editorSetStatusMessage(E, MsgWarning, quit_times)],
                         "main")
            /\ quit_times' = quit_times - 1
       ELSE /\ Processed(CTRL_KEY("q"), BeforeCallback, "exit")
            /\ UNCHANGED quit_times
    /\ UNCHANGED <<buf, saved_cursor, edits, disk>>

\* case CTRL_KEY('q'): the warning and return, or exit(0)
ProcessQuit ==
    /\ pc = "main"
    /\ IF E.dirty /\ quit_times > 0
       THEN /\ Processed(CTRL_KEY("q"),
                         [BeforeCallback EXCEPT !.E = editorSetStatusMessage(E, MsgWarning, quit_times)],
                         "main_frame")
            /\ quit_times' = quit_times - 1
       ELSE /\ Processed(CTRL_KEY("q"), BeforeCallback, "exit")
            /\ UNCHANGED quit_times
    /\ UNCHANGED <<buf, saved_cursor, edits, disk>>

\* case CTRL_KEY('f'): editorFind saves the cursor and calls editorPrompt
ProcessFind ==
    /\ pc = "main"
    /\ Processed(CTRL_KEY("f"), BeforeCallback, "find_frame")
    /\ saved_cursor' = [cx |-> E.cx, cy |-> E.cy, coloffset |-> E.coloffset,
                        rowoffset |-> E.rowoffset]
    /\ buf' = <<>>
    /\ UNCHANGED <<quit_times, edits, disk>>

\* case CTRL_KEY('s'): editorSave calls editorPrompt without a file name,
\* writes with one
ProcessSave ==
    /\ pc = "main"
    /\ IF E.filename = NULL
       THEN /\ Processed(CTRL_KEY("s"), BeforeCallback, "save_frame")
            /\ buf' = <<>>
            /\ UNCHANGED <<quit_times, disk>>
       ELSE \E outcome \in SaveOutcomes :
                /\ Processed(CTRL_KEY("s"),
                             [BeforeCallback EXCEPT !.E = editorSaveWrite(E, outcome = "written")],
                             "main_frame")
                /\ disk' = editorSaveFile(E, disk, outcome)
                /\ quit_times' = 3
                /\ UNCHANGED buf
    /\ UNCHANGED <<saved_cursor, edits>>

\* A key of editorPrompt that leaves the prompt open: the buffer is edited,
\* the callback called at the foot of the loop.
ProcessPromptKey ==
    /\ pc \in {"find", "save"}
    /\ \E c \in keys \ {Ch["ESC"]} :
           /\ ~(c = Ch["\r"] /\ Len(buf) # 0)
           /\ Len(PromptBuffer(buf, c)) <= MaxBuf
           /\ Processed(c, Callback(PromptBuffer(buf, c), c),
                        IF pc = "find" THEN "find_frame" ELSE "save_frame")
           /\ buf' = PromptBuffer(buf, c)
    /\ UNCHANGED <<quit_times, saved_cursor, edits, disk>>

\* c == '\x1b' in editorPrompt: NULL is returned, editorFind puts the
\* cursor back, editorSave sets "Save aborted"; the case breaks.
ProcessPromptEscape ==
    /\ pc \in {"find", "save"}
    /\ LET st == Callback(buf, Ch["ESC"])
           e1 == editorSetStatusMessage(st.E, "", 0)
       IN  Processed(Ch["ESC"],
                     [st EXCEPT !.E =
                         IF pc = "find"
                         THEN [e1 EXCEPT !.cx = saved_cursor.cx,
                                         !.cy = saved_cursor.cy,
                                         !.coloffset = saved_cursor.coloffset,
                                         !.rowoffset = saved_cursor.rowoffset]
                         ELSE editorSetStatusMessage(e1, MsgAborted, 0)],
                     "main_frame")
    /\ buf' = <<>>
    /\ quit_times' = 3
    /\ UNCHANGED <<saved_cursor, edits, disk>>

\* c == '\r' in editorPrompt with a non-empty buffer: the buffer is
\* returned, editorSave names and writes the file; the case breaks.
ProcessPromptEnter ==
    /\ pc \in {"find", "save"}
    /\ Len(buf) # 0
    /\ LET st == Callback(buf, Ch["\r"])
           e1 == editorSetStatusMessage(st.E, "", 0)
       IN  IF pc = "find"
           THEN /\ Processed(Ch["\r"], [st EXCEPT !.E = e1], "main_frame")
                /\ UNCHANGED disk
           ELSE \E outcome \in SaveOutcomes :
                    LET e2 == editorSelectSyntaxHighlight([e1 EXCEPT !.filename = buf])
                    IN  /\ Processed(Ch["\r"],
                                     [st EXCEPT !.E = editorSaveWrite(e2, outcome = "written")],
                                     "main_frame")
                        /\ disk' = editorSaveFile(e2, disk, outcome)
    /\ buf' = <<>>
    /\ quit_times' = 3
    /\ UNCHANGED <<saved_cursor, edits>>

FrameNext ==
    \/ MainFrame \/ PromptFrame
    \/ ProcessArrow \/ ProcessChar \/ ProcessQuit \/ ProcessFind \/ ProcessSave
    \/ ProcessPromptKey \/ ProcessPromptEscape \/ ProcessPromptEnter

FrameSpec == FrameInit /\ [][FrameNext]_vars

\* A key is read in this step.
KeyIsRead == called'.op = "editorReadKey" /\ called' # called

\* C28: between two key reads that follow each other exactly one frame is
\* drawn, and it is drawn after every change the earlier key made: the key
\* is read in the state the frame left. So it is in the main loop, in the
\* prompts of the save and of the search, when a prompt is entered and when
\* it is left, and after the quit warning.
C28_OneFramePerKey ==
    [][KeyIsRead =>
          /\ called.op \in {"", "editorRefreshScreen"}
          /\ called.op = "editorRefreshScreen" => called.i = 1
          /\ called.E = E]_vars

\* Ctrl-S was read after the frame of the first quit warning: the save
\* prompt is entered and its first frame is to be drawn.
C28_PromptEnteredAfterWarning ==
    /\ pc = "save_frame" /\ quit_times = 2
    /\ called.op = "editorReadKey" /\ called.k = CTRL_KEY("s")
    /\ called.E.statusmsg.fmt = MsgWarning

\* C29: whenever the search prompt is not open, the statics of
\* editorFindCallback have their initial values: no last matched row, the
\* direction forward, no saved highlight; so every search starts from
\* scratch however the searches before it went and ended.
C29_SearchStateReset ==
    pc # "find" =>
        /\ last_match = -1
        /\ direction = 1
        /\ saved_highlight = NULL

\* A search that had matched a row going backward has ended.
C29_EndedAfterBackwardMatch ==
    /\ pc = "main"
    /\ \E i \in 1..Len(found) : found[i][2] = -1

\* ------------------------------------------------------------------------
\* Searching backward: files where one row only, or every row, holds the
\* query, and the four arrow keys in the prompt
\* ------------------------------------------------------------------------

StepInit ==
    /\ NoReads
    /\ \E run \in
          { \* the rows "ab", "b", "bb": "a" is on row 0 only, "b" on every row
            [rows |-> 4, cols |-> 3, file |-> Bytes(<<"t">>),
             bytes |-> Bytes(<<"a", "b", "\n", "b", "\n", "b", "b", "\n">>),
             keys |-> {ARROW_LEFT, ARROW_UP, ARROW_DOWN, CTRL_KEY("f"),
                       Ch["a"], Ch["b"], Ch["\r"], Ch["ESC"], BACKSPACE},
             edits |-> 0] } :
           InitRun(run)

StepSpec == StepInit /\ [][FindNext]_vars

\* Key c is read in the search prompt, which stays open.
SearchKey(c) ==
    /\ pc = "find" /\ c \in keys
    /\ c # Ch["ESC"] /\ ~(c = Ch["\r"] /\ Len(buf) # 0)
    /\ PromptLoop(Callback(PromptBuffer(buf, c), c), PromptBuffer(buf, c))

\* The first row before row from, going round from row 0 to the last row,
\* that contains query; row from itself comes last.
PrevRowContaining(e, query, from) ==
    LET k == CHOOSE k \in 1..e.numrows :
                 /\ RowContains(e, (from + e.numrows - k) % e.numrows, query)
                 /\ \A m \in 1..(k - 1) :
                        ~RowContains(e, (from + e.numrows - m) % e.numrows, query)
    IN  (from + e.numrows - k) % e.numrows

\* The scan started forward from row 0 for query: the first row in the
\* order 0, 1, ... that contains it is matched, none when no row does.
ScannedFromRowZero(query) ==
    /\ direction' = 1
    /\ IF NoRowContains(E, query) THEN last_match' = -1
       ELSE /\ last_match' = NextRowContaining(E, query, E.numrows - 1)
            /\ E'.cy = last_match'

\* What key c read in the search prompt does to the match.
ArrowStep(c) ==
    IF c \in MoveKeys /\ last_match # -1
    THEN /\ direction' = (IF c \in {ARROW_RIGHT, ARROW_DOWN} THEN 1 ELSE -1)
         /\ last_match' = (IF c \in {ARROW_RIGHT, ARROW_DOWN}
                           THEN NextRowContaining(E, buf, last_match)
                           ELSE PrevRowContaining(E, buf, last_match))
         /\ E'.cy = last_match'
    ELSE c # Ch["\r"] => ScannedFromRowZero(PromptBuffer(buf, c))

\* C30: in a search with a last matched row m, ArrowRight and ArrowDown
\* match the first row containing the query in the order m + 1, m + 2, ...
\* going round, ArrowLeft and ArrowUp the first in the order m - 1, m - 2,
\* ... going round, which is m itself when no other row contains it; a key
\* other than the arrows, Enter and Escape starts the scan forward from
\* row 0; so does any arrow, ArrowLeft and ArrowUp too, when there is no
\* last matched row.
C30_ArrowsStepFromLastMatch ==
    [][\A c \in keys : SearchKey(c) => ArrowStep(c)]_vars

\* "a", which only row 0 contains, was matched there, and a step backward
\* matched row 0 again.
C30_BackToOnlyMatch ==
    /\ pc = "find" /\ buf = Bytes(<<"a">>)
    /\ found = << <<0, 1>>, <<0, -1>> >>
    /\ last_match = 0 /\ direction = -1

\* ------------------------------------------------------------------------
\* Numbers: an empty C file, and a row typed of digits, '.', a letter and
\* a separator, each character at the cursor
\* ------------------------------------------------------------------------

\* How many characters are typed.
MaxNumber == 4

NumberInit ==
    /\ NoReads
    /\ InitRun([rows |-> 4, cols |-> 3, file |-> Bytes(<<"a", ".", "c">>),
                bytes |-> <<>>,
                keys |-> {Ch["1"], Ch["."], Ch["a"], Ch[" "], ARROW_LEFT},
                edits |-> MaxNumber])

NumberNext == KeyChar \/ KeyArrow

NumberSpec == NumberInit /\ [][NumberNext]_vars

\* Cell i (1-based) of row is a '.' classified HL_NUMBER.
NumberDot(row, i) == row.render[i] = Ch["."] /\ row.highlight[i] = HL_NUMBER

\* C31 as stated: a '.' is classified as number only when the character
\* immediately before it is a digit.
C31_DotOnlyAfterDigit ==
    \A k \in 1..E.numrows :
        \A i \in 1..Len(E.row[k].render) :
            NumberDot(E.row[k], i) => (i > 1 /\ isdigit(E.row[k].render[i - 1]))

\* C31: with number highlighting enabled, outside strings and comments, a
\* '.' is classified as number exactly when the cell before it is
\* classified as number, which is a digit of a number or a '.' that follows
\* one; a '.' that is first in its row or follows a cell not classified as
\* number is never classified as number, and every run of cells classified
\* as number starts with a digit.
C31_DotOnlyAfterNumber ==
    \A k \in 1..E.numrows :
        \A i \in 1..Len(E.row[k].render) :
            /\ NumberDot(E.row[k], i) =>
                  /\ i > 1
                  /\ E.row[k].highlight[i - 1] = HL_NUMBER
                  /\ isdigit(E.row[k].render[i - 1])
                        \/ E.row[k].render[i - 1] = Ch["."]
            /\ (E.row[k].render[i] = Ch["."] /\ i > 1
                    /\ E.row[k].highlight[i - 1] = HL_NUMBER) =>
                  E.row[k].highlight[i] = HL_NUMBER
            /\ (E.row[k].highlight[i] = HL_NUMBER
                    /\ (i = 1 \/ E.row[k].highlight[i - 1] # HL_NUMBER)) =>
                  isdigit(E.row[k].render[i])

\* The row "1..": the second '.' follows a '.' and is classified as number.
C31_DotAfterDot ==
    /\ E.numrows = 1 /\ E.syntax # 0
    /\ E.row[1].chars = Bytes(<<"1", ".", ".">>)
    /\ NumberDot(E.row[1], 3)

\* Row j (0-based) of e holds the highlight array and open-comment flag
\* derived from its render, seeded with the flag of the row before it.
Derived(e, j) ==
    LET s == SyntaxLoop(HLDB[e.syntax], e.row[j + 1].render,
                        SyntaxLocals(e.row[j + 1].render,
                                     j > 0 /\ e.row[j].hl_open_comment))
    IN  /\ e.row[j + 1].highlight = s.highlight
        /\ e.row[j + 1].hl_open_comment = s.in_comment

\* The first row from r on whose open-comment flag is the same in e as in
\* old, or the last row when there is none.
StopRow(old, e, r) ==
    LET same == {j \in r..(e.numrows - 1) :
                    e.row[j + 1].hl_open_comment = old.row[j + 1].hl_open_comment}
    IN  IF same = {} THEN e.numrows - 1
        ELSE CHOOSE j \in same : \A m \in same : j <= m

\* A character call on row called.k has rebuilt that row, so that a
\* re-highlight started there.
RehighlightStarted ==
    /\ called.op \in {"editorRowInsertChar", "editorRowDeleteChar"}
    /\ E.syntax # 0
    /\ E.row[called.k + 1].chars # called.E.row[called.k + 1].chars

C32_StoppedBeforeLastRow ==
    /\ RehighlightStarted
    /\ called.k = 0
    /\ E.numrows = 3
    /\ StopRow(called.E, E, 0) = 1
    /\ E.row[1].hl_open_comment # called.E.row[1].hl_open_comment

\* ------------------------------------------------------------------------
\* editorDrawRows: the buffer ab is the sequence of the strings appended
\* to it by abAppend
\* ------------------------------------------------------------------------

\* editorSyntaxToColor
editorSyntaxToColor(highlight) ==
    CASE highlight \in {HL_COMMENT, HL_MLCOMMENT} -> 36
      [] highlight = HL_KEYWORD1 -> 33
      [] highlight = HL_KEYWORD2 -> 32
      [] highlight = HL_STRING -> 35
      [] highlight = HL_NUMBER -> 31
      [] highlight = HL_MATCH -> 34
      [] OTHER -> 37

RECURSIVE Decimal(_)
\* The digits snprintf writes for %d of a number n >= 0.
Decimal(n) ==
    IF n < 10 THEN <<Ch["0"] + n>>
    ELSE Append(Decimal(n \div 10), Ch["0"] + (n % 10))

\* snprintf(buf, sizeof(buf), "\x1b[%dm", color)
ColorEscape(color) == <<Ch["ESC"], Ch["["]>> \o Decimal(color) \o <<Ch["m"]>>

\* "\x1b[7m", "\x1b[m", "\x1b[39m", "\x1b[K", "\r\n" and "~"
InverseEscape == <<Ch["ESC"], Ch["["], Ch["7"], Ch["m"]>>
PlainEscape == <<Ch["ESC"], Ch["["], Ch["m"]>>
DefaultEscape == <<Ch["ESC"], Ch["["], Ch["3"], Ch["9"], Ch["m"]>>
ClearEscape == <<Ch["ESC"], Ch["["], Ch["K"]>>
NewLine == <<Ch["\r"], Ch["\n"]>>
Tilde == <<Ch["~"]>>

RECURSIVE DrawLoop_PerCharacter(_, _, _, _, _)
\* DrawLoop were the color set before every colored character.
DrawLoop_PerCharacter(c, highlight, i, current_color, ab) ==
    IF i >= Len(c) THEN ab
    ELSE IF iscntrl(c[i + 1])
    THEN LET sym == IF c[i + 1] <= 26 THEN Ch["@"] + c[i + 1] ELSE Ch["?"]
             glyph == ab \o <<InverseEscape, <<sym>>, PlainEscape>>
         IN  DrawLoop_PerCharacter(c, highlight, i + 1, current_color,
                      IF current_color # -1
                      THEN Append(glyph, ColorEscape(current_color))
                      ELSE glyph)
    ELSE IF highlight[i + 1] = HL_NORMAL
    THEN DrawLoop_PerCharacter(c, highlight, i + 1, -1,
                  Append(IF current_color # -1 THEN Append(ab, DefaultEscape)
                         ELSE ab,
                         <<c[i + 1]>>))
    ELSE LET color == editorSyntaxToColor(highlight[i + 1])
         IN  DrawLoop_PerCharacter(c, highlight, i + 1, color,
                      Append(Append(ab, ColorEscape(color)), <<c[i + 1]>>))

RECURSIVE DrawLoop(_, _, _, _, _)
\* The loop over the len visible characters c with their highlight, from
\* i on.
DrawLoop(c, highlight, i, current_color, ab) ==
    IF i >= Len(c) THEN ab
    ELSE IF iscntrl(c[i + 1])
    THEN LET sym == IF c[i + 1] <= 26 THEN Ch["@"] + c[i + 1] ELSE Ch["?"]
             glyph == ab \o <<InverseEscape, <<sym>>, PlainEscape>>
         IN  DrawLoop(c, highlight, i + 1, current_color,
                      IF current_color # -1
                      THEN Append(glyph, ColorEscape(current_color))
                      ELSE glyph)
    ELSE IF highlight[i + 1] = HL_NORMAL
    THEN DrawLoop(c, highlight, i + 1, -1,
                  Append(IF current_color # -1 THEN Append(ab, DefaultEscape)
                         ELSE ab,
                         <<c[i + 1]>>))
    ELSE LET color == editorSyntaxToColor(highlight[i + 1])
         IN  DrawLoop(c, highlight, i + 1, color,
                      Append(IF color # current_color
                             THEN Append(ab, ColorEscape(color))
                             ELSE ab,
                             <<c[i + 1]>>))

\* len of editorDrawRows for a row: the part of render from coloffset on
\* that fits in screencols.
DrawLen(e, row) ==
    LET len == Len(row.render) - e.coloffset
    IN  IF len < 0 THEN 0 ELSE IF len > e.screencols THEN e.screencols ELSE len

RECURSIVE editorDrawRows(_, _, _)
\* editorDrawRows(ab) from screen line y on.
editorDrawRows(e, y, ab) ==
    IF y >= e.screenrows THEN ab
    ELSE LET row == e.row[y + e.rowoffset + 1]
             len == DrawLen(e, row)
             line ==
                 IF y + e.rowoffset >= e.numrows THEN Append(ab, Tilde)
                 ELSE Append(DrawLoop(SubSeq(row.render, e.coloffset + 1,
                                             e.coloffset + len),
                                      SubSeq(row.highlight, e.coloffset + 1,
                                             e.coloffset + len),
                                      0, -1, ab),
                             DefaultEscape)
         IN  editorDrawRows(e, y + 1, line \o <<ClearEscape, NewLine>>)

\* How many characters are typed before the frames drawn.
MaxDrawn == 3

\* The rows a block comment and 1 of a C file in a window of two text
\* lines: comment markers, a quote, a digit and Ctrl-A are typed.
DrawInit ==
    /\ NoReads
    /\ InitRun([rows |-> 4, cols |-> 8, file |-> Bytes(<<"a", ".", "c">>),
                bytes |-> Bytes(<<"/", "*", "*", "/", "\n", "1", "\n">>),
                keys |-> {Ch["/"], Ch["\""], Ch["1"], CTRL_KEY("a"),
                          ARROW_RIGHT, ARROW_DOWN},
                edits |-> MaxDrawn])

\* editorRefreshScreen() at the head of the loop of main: the rows drawn
\* into ab are kept in called.ab.
DrawFrame ==
    /\ pc = "main_frame"
    /\ E' = editorRefreshScreen(E)
    /\ pc' = "main"
    /\ called' = [op |-> "editorDrawRows", i |-> 0, k |-> 0,
                  E |-> editorRefreshScreen(E),
                  ab |-> editorDrawRows(editorRefreshScreen(E), 0, <<>>)]
    /\ UNCHANGED <<quit_times, findVars, buf, saved_cursor, sessionVars, keys,
                   readVars, edits, saved, touched, quitRun, typed, disk,
                   input, restarted>>

DrawNext == DrawFrame \/ ProcessChar \/ ProcessArrow

DrawSpec == DrawInit /\ [][DrawNext]_vars

\* The position in ab of the "\r\n" that ends screen line y.
NewLineAt(ab, y) ==
    CHOOSE p \in 1..Len(ab) :
        /\ ab[p] = NewLine
        /\ Cardinality({q \in 1..p : ab[q] = NewLine}) = y + 1

\* What was appended for screen line y, up to its "\r\n".
DrawnLine(ab, y) ==
    SubSeq(ab, IF y = 0 THEN 1 ELSE NewLineAt(ab, y - 1) + 1, NewLineAt(ab, y) - 1)

\* The position in out of the glyph of visible character i (from 0): the
\* glyphs are the strings of one byte.
GlyphAt(out, i) ==
    CHOOSE p \in 1..Len(out) :
        /\ Len(out[p]) = 1
        /\ Cardinality({q \in 1..p : Len(out[q]) = 1}) = i + 1

IsColorSet(s) == \E n \in 30..37 : s = ColorEscape(n)

RECURSIVE Pen(_, _)
\* The foreground color in effect on the terminal after the first n
\* strings of out, 39 being the default color.
Pen(out, n) ==
    IF n = 0 THEN 39
    ELSE IF out[n] = DefaultEscape \/ out[n] = PlainEscape THEN 39
    ELSE IF IsColorSet(out[n]) THEN CHOOSE c \in 30..37 : out[n] = ColorEscape(c)
    ELSE Pen(out, n - 1)

\* The position in out where what is drawn for visible character i ends:
\* its glyph, or for a control character the escapes after the glyph, the
\* color set again included when one was in effect.
GroupEnd(out, c, i) ==
    IF i < 0 THEN 0
    ELSE IF ~iscntrl(c[i + 1]) THEN GlyphAt(out, i)
    ELSE GlyphAt(out, i) + 1 + (IF Pen(out, GlyphAt(out, i) - 2) # 39 THEN 1 ELSE 0)

\* The maximal runs a..b (from 0) of visible characters of one key that
\* hold no control character.
ColorRuns(c, key) ==
    {r \in (0..(Len(c) - 1)) \X (0..(Len(c) - 1)) :
        /\ r[1] <= r[2]
        /\ \A j \in r[1]..r[2] : key[j + 1] = key[r[1] + 1] /\ ~iscntrl(c[j + 1])
        /\ r[1] = 0 \/ key[r[1]] # key[r[1] + 1]
        /\ r[2] = Len(c) - 1 \/ key[r[2] + 2] # key[r[2] + 1]}

\* How many of the strings drawn for the run r satisfy the test.
Escapes(out, c, r, Test(_)) ==
    Cardinality({p \in (GroupEnd(out, c, r[1] - 1) + 1)..GlyphAt(out, r[2]) :
                    Test(out[p])})

IsDefaultEscape(s) == s = DefaultEscape

\* One color-set escape for every run of a key other than normal, one
\* reset-to-default escape for every run of normal characters that
\* follows a colored one.
RunsCoalesced(out, c, key, normal) ==
    \A r \in ColorRuns(c, key) :
        /\ key[r[1] + 1] # normal => Escapes(out, c, r, IsColorSet) = 1
        /\ (key[r[1] + 1] = normal /\ r[1] > 0 /\ key[r[1]] # normal) =>
               Escapes(out, c, r, IsDefaultEscape) = 1

\* Every visible control character is drawn as "\x1b[7m", '@' + code or
\* '?', "\x1b[m", and the color in effect before it is in effect after.
ControlsInverted(out, c) ==
    \A i \in 0..(Len(c) - 1) :
        iscntrl(c[i + 1]) =>
            LET p == GlyphAt(out, i)
            IN  /\ p > 1 /\ out[p - 1] = InverseEscape
                /\ out[p] = <<IF c[i + 1] <= 26 THEN Ch["@"] + c[i + 1] ELSE Ch["?"]>>
                /\ p < Len(out) /\ out[p + 1] = PlainEscape
                /\ GroupEnd(out, c, i) <= Len(out)
                /\ Pen(out, GroupEnd(out, c, i)) = Pen(out, p - 2)

\* The visible characters of document row k (from 0) of e, and their
\* highlight.
Visible(e, k, field) ==
    SubSeq(e.row[k + 1][field], e.coloffset + 1,
           e.coloffset + DrawLen(e, e.row[k + 1]))

\* The rows of the document on the screen lines of the frame drawn.
DrawnRows ==
    IF called.op # "editorDrawRows" THEN {}
    ELSE {y \in 0..(called.E.screenrows - 1) : y + called.E.rowoffset < called.E.numrows}

\* What the frame drew for the row on screen line y, without the
\* "\x1b[39m" and "\x1b[K" that end every line.
Drawn(y) ==
    LET line == DrawnLine(called.ab, y) IN SubSeq(line, 1, Len(line) - 2)

\* One glyph is drawn for every visible character of the row on line y.
GlyphPerCharacter(y) ==
    Cardinality({p \in 1..Len(Drawn(y)) : Len(Drawn(y)[p]) = 1})
        = Len(Visible(called.E, y + called.E.rowoffset, "render"))

\* The key of a classification in the claim as stated: itself.
ByClass(hl) == hl

\* The key of a classification by color: editorSyntaxToColor, 39 for normal.
ByColor(hl) ==
    [j \in 1..Len(hl) |-> IF hl[j] = HL_NORMAL THEN 39 ELSE editorSyntaxToColor(hl[j])]

\* C33 as stated: the runs are those of one classification.
C33_OneEscapePerClassRun ==
    \A y \in DrawnRows :
        LET k == y + called.E.rowoffset
        IN  /\ GlyphPerCharacter(y)
            /\ RunsCoalesced(Drawn(y), Visible(called.E, k, "render"),
                             ByClass(Visible(called.E, k, "highlight")), HL_NORMAL)
            /\ ControlsInverted(Drawn(y), Visible(called.E, k, "render"))

\* The escape that sets the color key, 39 being the default color.
EscapeOf(key) == IF key = 39 THEN DefaultEscape ELSE ColorEscape(key)

\* Every character that is no control character is drawn in the color of
\* its key; between two such characters next to each other nothing is
\* drawn when their colors are the same, and the one escape of the second
\* color when they differ.
ColorsCoalesced(out, c, key) ==
    \A i \in 0..(Len(c) - 1) :
        ~iscntrl(c[i + 1]) =>
            /\ Pen(out, GlyphAt(out, i) - 1) = key[i + 1]
            /\ (i > 0 /\ ~iscntrl(c[i])) =>
                   SubSeq(out, GlyphAt(out, i - 1) + 1, GlyphAt(out, i) - 1)
                       = IF key[i] = key[i + 1] THEN <<>>
                         ELSE <<EscapeOf(key[i + 1])>>
            /\ i = 0 =>
                   SubSeq(out, 1, GlyphAt(out, 0) - 1)
                       = IF key[1] = 39 THEN <<>> ELSE <<EscapeOf(key[1])>>

\* C33: when a visible row is drawn, every character is drawn in the
\* color of its classification (comment and block comment share one); a
\* run of consecutive characters of the same color produces one color-set
\* escape at its start and none per further character, a run of normal
\* characters after colored ones produces one reset-to-default escape at
\* its start, and a control character is drawn as an inverse-video glyph
\* after which the color in effect before it is in effect again.
C33_OneEscapePerColorRun ==
    \A y \in DrawnRows :
        LET k == y + called.E.rowoffset
        IN  /\ GlyphPerCharacter(y)
            /\ ColorsCoalesced(Drawn(y), Visible(called.E, k, "render"),
                               ByColor(Visible(called.E, k, "highlight")))
            /\ ControlsInverted(Drawn(y), Visible(called.E, k, "render"))

\* The row drawn on the first line is the block comment followed by a
\* line comment: one color, two classifications.
C33_CommentAfterBlockComment ==
    /\ 0 \in DrawnRows
    /\ called.E.rowoffset = 0 /\ called.E.coloffset = 0
    /\ called.E.row[1].highlight
           = <<HL_MLCOMMENT, HL_MLCOMMENT, HL_MLCOMMENT, HL_MLCOMMENT,
               HL_COMMENT, HL_COMMENT>>
    /\ Drawn(0) = <<ColorEscape(36), <<Ch["/"]>>, <<Ch["*"]>>, <<Ch["*"]>>,
                    <<Ch["/"]>>, <<Ch["/"]>>, <<Ch["/"]>> >>

\* The index of the row editorInsertNewline inserts in e: the cursor row
\* at column 0, the row after it otherwise.
InsertedRow(e) == IF e.cx = 0 THEN e.cy ELSE e.cy + 1

\* C34: when Enter has inserted a row, by splitting a row or at column 0,
\* and the inserted row ends inside a block comment, the row after the
\* inserted row holds the highlight array and open-comment flag derived
\* with that seed, also when it is the last row of the document.
C34_RowAfterInsertedReseeded ==
    [][(KeyEnter /\ E.syntax # 0) =>
          LET k == InsertedRow(E)
          IN  (k + 1 < E'.numrows /\ E'.row[k + 1].hl_open_comment) =>
                  Derived(E', k + 1)]_vars

\* Backspace at the start of row cy joins it onto the row above, and a
\* row follows the joined row.
MergeBeforeRow ==
    /\ KeyBackspace
    /\ E.syntax # 0
    /\ E.cx = 0 /\ 0 < E.cy /\ E.cy + 1 < E.numrows

\* C35: after Backspace has merged row cy into row cy - 1 and deleted row
\* cy, the row that now follows the merged row holds the highlight array
\* and open-comment flag derived from the merged row's flag, also when the
\* merged row's flag is the one row cy - 1 had and not the one the deleted
\* row had.
C35_RowAfterMergedReseeded ==
    [][MergeBeforeRow => Derived(E', E.cy)]_vars

\* The text chars without the character at column cx of row cy (from 0).
WithoutChar(chars, cx, cy) ==
    [chars EXCEPT ![cy + 1] =
        SubSeq(chars[cy + 1], 1, cx) \o SubSeq(chars[cy + 1], cx + 2, Len(chars[cy + 1]))]

\* C36: the Delete key leaves the cursor where it is, at the end of the
\* last row and on the row past the end too, and removes the character at
\* cx, or joins the next row onto the cursor row, or changes nothing.
C36_DeleteKeepsCursor ==
    [][KeyDel =>
          /\ E'.cx = E.cx /\ E'.cy = E.cy
          /\ \/ /\ E.cy < E.numrows /\ E.cx < Len(E.row[E.cy + 1].chars)
                /\ Chars(E') = WithoutChar(Chars(E), E.cx, E.cy)
             \/ /\ E.cy + 1 < E.numrows /\ E.cx = Len(E.row[E.cy + 1].chars)
                /\ Chars(E') = Joined(Chars(E), E.cy + 1)
             \/ Chars(E') = Chars(E)]_vars

\* ------------------------------------------------------------------------
\* Typing: the program is started on a text file, and the keys are a
\* letter, Ctrl-J (the byte 0x0A, bound to no command), Enter, Arrow
\* Right, save and quit; after exit the program is started again on the
\* file
\* ------------------------------------------------------------------------

\* How many characters are typed.
MaxTyped == 2

TypeInit ==
    /\ NoReads
    /\ InitRun([rows |-> 4, cols |-> 3, file |-> Bytes(<<"t">>),
                bytes |-> Bytes(<<"a", "\r", "\n", "b">>),
                keys |-> {Ch["a"], Ch["\n"], Ch["\r"], ARROW_RIGHT,
                          CTRL_KEY("s"), CTRL_KEY("q")},
                edits |-> MaxTyped])

TypeNext ==
    \/ KeyChar \/ KeyEnter \/ KeyArrow \/ KeySave
    \/ KeyQuitWarn \/ KeyQuitExit \/ Restart

TypeSpec == TypeInit /\ [][TypeNext]_vars

\* The rows the program loads from the bytes editorRowsToString gives
\* for e.
Reloaded(e) ==
    Chars(main(e.screenrows + 2, e.screencols, e.filename, editorRowsToString(e)))

\* C37: in every document reached from a loaded document by key events,
\* keys bound to no command such as 0x0A being inserted as characters,
\* no row's chars holds a line feed or ends in a carriage return, and the
\* bytes of serialize load as the same rows in the same order.
C37_RowsSurviveReload ==
    pc = "main" =>
        /\ \A k \in 1..E.numrows :
               /\ \A i \in 1..Len(E.row[k].chars) : E.row[k].chars[i] # Ch["\n"]
               /\ E.row[k].chars = <<>>
                  \/ E.row[k].chars[Len(E.row[k].chars)] # Ch["\r"]
        /\ Reloaded(E) = Chars(E)

====
